---- MODULE Spec2Model ----
(***************************************************************************)
(* Model of the ARCADE converter of cell-abm-pipeline                      *)
(* (src/src/cell_abm_pipeline/initial_conditions/convert_arcade.py) and of *)
(* the flows that initialize ARCADE simulations                            *)
(* (src/src/cell_abm_pipeline/flows/initialize_arcade_simulations.py,      *)
(* initialize_arcade_simulations_local.py).                                *)
(*                                                                         *)
(* Python floats are modelled as exact rationals <<numerator, denominator>> *)
(* in lowest terms with a positive denominator.  pandas tables are records *)
(* [region_col |-> BOOLEAN, rows |-> sequence of rows].                    *)
(***************************************************************************)
EXTENDS Integers, Sequences, FiniteSets, TLC

VARIABLES
    pc,               \* position of the running call
    config,           \* the statistic mappings imported from __config__
    volume,           \* get_cell_phase: argument volume
    critical_volume,  \* get_cell_phase: argument critical_volume
    cell_phase,       \* get_cell_phase: returned (state, phase)
    samples,          \* the sample table a static method is called with
    reference,        \* the per-cell reference mapping
    region,           \* the region key
    criticals,        \* get_cell_criticals: returned pair
    cell,             \* convert_to_cell: returned record
    raised,           \* the exception the call raised, None when it returned
    samples_df,       \* convert_arcade: the loaded sample table
    region_df,        \* convert_arcade: the loaded region sample table
    margins,          \* convert_arcade: the margins (x, y, z)
    transform,        \* calculate_sample_transform: (steps, offsets, bounds)
    region_samples,   \* convert_arcade: the transformed region table
    setup,            \* make_setup_file: attributes of the series element
    merged,           \* the sample table filter_valid_samples is called with
    cell_id,          \* convert_to_cell, convert_to_location: argument cell_id
    location,         \* convert_to_location: returned record
    working,          \* the working location: the files to load, by key
    saved,            \* the working location: the files saved, by kind and key
    context_keys,     \* run: the keys of the context still to convert
    key,              \* convert_arcade: the key being converted
    run_reference,    \* run: the reference argument, then the loaded reference
    key_reference,    \* convert_arcade: the reference rows of the key
    cells,            \* convert_arcade: the cell records built so far
    locations,        \* convert_arcade: the location records built so far
    loop_i,           \* convert_arcade: i, the position in enumerate(samples_by_id)
    parameters,       \* run_flow_convert_to_arcade: the parameters of the flow
    conditions,       \* run_flow_convert_to_arcade: series.conditions still to convert
    fov,              \* run_flow_*: the condition being converted
    context,          \* run_flow: the context configuration
    docker_args,      \* run_flow_sample_images, run_flow_process_samples: docker_args
    docker_log,       \* the calls made to the Docker daemon, in order
    item_index,       \* run_flow_*: the position in the items of the inner loop
    selected_fovs,    \* local run_flow: selected_fovs
    location_keys,    \* local run_flow: the keys present in the working location
    docker_volume,    \* local run_flow: volume
    tasks,            \* local run_flow: the submitted task runs, by task
    all_fovs,         \* local run_flow: all_fovs, the futures of the renames
    fov_index,        \* local run_flow: the position in selected_fovs
    channel           \* local run_flow: the channel of the inner loop

vars == <<pc, config, volume, critical_volume, cell_phase, samples, reference,
          region, criticals, cell, raised, samples_df, region_df, margins, transform,
          region_samples, setup, merged, cell_id, location, working, saved,
          context_keys, key, run_reference, key_reference, cells, locations, loop_i,
          parameters, conditions, fov, context, docker_args, docker_log, item_index,
          selected_fovs, location_keys, docker_volume, tasks, all_fovs, fov_index, channel>>

classifierVars == <<volume, critical_volume, cell_phase>>
cellVars == <<config, samples, reference, region, criticals, cell>>
transformVars == <<samples_df, region_df, margins, transform, region_samples, setup>>
locationVars == <<cell_id, location>>
flowVars == <<parameters, conditions, fov>>
dockerVars == <<context, docker_args, docker_log, item_index>>
localVars == <<selected_fovs, location_keys, docker_volume, tasks, all_fovs, fov_index, channel>>
runVars == <<working, saved, context_keys, key, run_reference, key_reference, cells, locations,
             loop_i>>

\* Python's None.
None == "None"

-----------------------------------------------------------------------------
(* Exact rational arithmetic standing for float arithmetic.                *)

Abs(n) == IF n < 0 THEN -n ELSE n

RECURSIVE GCD(_, _)
GCD(a, b) == IF b = 0 THEN a ELSE GCD(b, a % b)

\* n / d in lowest terms, d # 0.
Rat(n, d) ==
    LET g == GCD(Abs(n), Abs(d))
        s == IF d < 0 THEN -1 ELSE 1
    IN  <<(s * n) \div g, (s * d) \div g>>

RatInt(n) == <<n, 1>>
RatAdd(p, q) == Rat(p[1] * q[2] + q[1] * p[2], p[2] * q[2])
RatSub(p, q) == Rat(p[1] * q[2] - q[1] * p[2], p[2] * q[2])
RatMul(p, q) == Rat(p[1] * q[1], p[2] * q[2])
RatDiv(p, q) == Rat(p[1] * q[2], p[2] * q[1])
RatNeg(p) == <<-p[1], p[2]>>
RatLess(p, q) == p[1] * q[2] < q[1] * p[2]
RatLeq(p, q) == p[1] * q[2] <= q[1] * p[2]
RatIsInt(p) == p[2] = 1

\* int(q) and astype("int32"): truncation toward zero.
RatTrunc(p) == IF p[1] >= 0 THEN p[1] \div p[2] ELSE -((-p[1]) \div p[2])

\* floor(q).
RatFloor(p) == p[1] \div p[2]

\* A decimal literal with three places, e.g. 1.124.
Milli(n) == Rat(n, 1000)

-----------------------------------------------------------------------------
(* ConvertARCADE.get_cell_phase                                            *)

fractions == <<Milli(250), Milli(1000), Milli(1124), Milli(1726), Milli(1969)>>

states == <<"APOPTOTIC", "APOPTOTIC", "PROLIFERATIVE", "PROLIFERATIVE", "PROLIFERATIVE">>

phases == <<"LATE", "EARLY", "G1", "S", "G2">>

\* [fraction * critical_volume for fraction in fractions]
scale_thresholds(fracs, cv) == [i \in 1..Len(fracs) |-> RatMul(fracs[i], cv)]

\* A scan that also stops on a threshold equal to volume.
RECURSIVE first_index_geq(_, _, _)
first_index_geq(thresholds, vol, ind) ==
    IF ind >= Len(thresholds) THEN -1
    ELSE IF RatLeq(RatInt(vol), thresholds[ind + 1]) THEN ind
    ELSE first_index_geq(thresholds, vol, ind + 1)

\* A scan whose default, when no threshold exceeds the volume, is 0.
RECURSIVE first_index_default_zero(_, _, _)
first_index_default_zero(thresholds, vol, ind) ==
    IF ind >= Len(thresholds) THEN 0
    ELSE IF RatLess(RatInt(vol), thresholds[ind + 1]) THEN ind
    ELSE first_index_default_zero(thresholds, vol, ind + 1)

\* next((ind for ind, thresh in enumerate(thresholds) if thresh > volume), -1),
\* scanning from the 0-based position ind.
RECURSIVE first_index(_, _, _)
first_index(thresholds, vol, ind) ==
    IF ind >= Len(thresholds) THEN -1
    ELSE IF RatLess(RatInt(vol), thresholds[ind + 1]) THEN ind
    ELSE first_index(thresholds, vol, ind + 1)

\* An indexing that maps a negative index to the first element.
py_index_first(seq, ind) == IF ind < 0 THEN seq[1] ELSE seq[ind + 1]

\* seq[ind] for a Python list: 0-based, a negative index counts from the end.
py_index(seq, ind) == IF ind < 0 THEN seq[Len(seq) + ind + 1] ELSE seq[ind + 1]

\* f"{state}_{phases[index]}"
format_phase(state, phase) == state \o "_" \o phase

\* A classifier whose phase label is built on the state of the first threshold.
get_cell_phase_first_state(vol, cv) ==
    LET thresholds == scale_thresholds(fractions, cv)
        index == first_index(thresholds, vol, 0)
        state == py_index(states, index)
        phase == format_phase(py_index(states, 0), py_index(phases, index))
    IN  <<state, phase>>

\* state, phase of lines 304-321.
get_cell_phase(vol, cv) ==
    LET thresholds == scale_thresholds(fractions, cv)
        index == first_index(thresholds, vol, 0)
        state == py_index(states, index)
        phase == format_phase(state, py_index(phases, index))
    IN  <<state, phase>>

-----------------------------------------------------------------------------
(* The statistic mappings imported from __config__ (convert_arcade.py      *)
(* lines 8-18).  The module is not part of the sources at hand; the model  *)
(* draws the mappings from the values the repository states elsewhere.     *)

\* The region names of the model in the order Python sorts them.
RegionNames == <<"DEFAULT", "NUCLEUS", "REGION">>

\* A decimal literal with two places, e.g. 9.75.
Centi(n) == Rat(n, 100)

\* VOLUMES, HEIGHTS, CRITICAL_VOLUMES, CRITICAL_HEIGHTS of the flow: region -> (mean, std).
ConfigFlow ==
    [VOLUME_MU |-> [DEFAULT |-> RatInt(1865), NUCLEUS |-> RatInt(543)],
     VOLUME_SIGMA |-> [DEFAULT |-> RatInt(517), NUCLEUS |-> RatInt(157)],
     CRITICAL_VOLUME_MU |-> [DEFAULT |-> RatInt(1300), NUCLEUS |-> RatInt(400)],
     CRITICAL_VOLUME_SIGMA |-> [DEFAULT |-> RatInt(200), NUCLEUS |-> RatInt(50)],
     HEIGHT_MU |-> [DEFAULT |-> Centi(975), NUCLEUS |-> Centi(686)],
     HEIGHT_SIGMA |-> [DEFAULT |-> Centi(240), NUCLEUS |-> Centi(170)],
     CRITICAL_HEIGHT_MU |-> [DEFAULT |-> Centi(900), NUCLEUS |-> Centi(650)],
     CRITICAL_HEIGHT_SIGMA |-> [DEFAULT |-> Centi(200), NUCLEUS |-> Centi(150)]]

\* The mappings of the tests with given parameters: one region, REGION.
ConfigTest ==
    [VOLUME_MU |-> [REGION |-> RatInt(100)],
     VOLUME_SIGMA |-> [REGION |-> RatInt(10)],
     CRITICAL_VOLUME_MU |-> [REGION |-> RatInt(200)],
     CRITICAL_VOLUME_SIGMA |-> [REGION |-> RatInt(30)],
     HEIGHT_MU |-> [REGION |-> RatInt(100)],
     HEIGHT_SIGMA |-> [REGION |-> RatInt(10)],
     CRITICAL_HEIGHT_MU |-> [REGION |-> RatInt(200)],
     CRITICAL_HEIGHT_SIGMA |-> [REGION |-> RatInt(30)]]

Configs == {ConfigFlow, ConfigTest}

-----------------------------------------------------------------------------
(* Sample tables.  A row is [id, x, y, z, region]; region is None in a     *)
(* table without a region column.  Coordinates are rationals.              *)

Row(id, x, y, z, reg) == [id |-> id, x |-> RatInt(x), y |-> RatInt(y), z |-> RatInt(z), region |-> reg]

Table(region_col, rows) == [region_col |-> region_col, rows |-> rows]

\* len(samples)
len(table) == Len(table.rows)

RatSetMax(S) == CHOOSE m \in S : \A q \in S : RatLeq(q, m)
RatSetMin(S) == CHOOSE m \in S : \A q \in S : RatLeq(m, q)

\* samples[axis].max(), samples[axis].min()
column_max(table, axis) == RatSetMax({table.rows[i][axis] : i \in 1..Len(table.rows)})
column_min(table, axis) == RatSetMin({table.rows[i][axis] : i \in 1..Len(table.rows)})

\* The keys of samples.groupby("region"): the distinct regions, sorted.
groupby_region_keys(table) ==
    SelectSeq(RegionNames, LAMBDA name : \E i \in 1..Len(table.rows) : table.rows[i].region = name)

\* The group of one key: its rows, in the table's order.
region_group(table, name) ==
    Table(table.region_col, SelectSeq(table.rows, LAMBDA r : r.region = name))

-----------------------------------------------------------------------------
(* ConvertARCADE.get_cell_criticals, get_cell_regions, convert_to_cell      *)

KeyError == "KeyError"

\* "volume" if region == "DEFAULT" else f"volume.{region}"
reference_key(field, reg) == IF reg = "DEFAULT" THEN <<field>> ELSE <<field, reg>>

\* A raw volume that never consults the reference.
raw_volume_samples_only(table, ref, reg) == RatInt(len(table))

\* reference[reference_key] if reference_key in reference else len(samples)
raw_volume(table, ref, reg) ==
    IF reference_key("volume", reg) \in DOMAIN ref
    THEN ref[reference_key("volume", reg)]
    ELSE RatInt(len(table))

\* samples.z.max() - samples.z.min()
raw_height(table, ref, reg) == RatSub(column_max(table, "z"), column_min(table, "z"))

\* ((raw - mu) / sigma) * critical_sigma + critical_mu
z_score_rescale(raw, mu, sigma, critical_mu, critical_sigma) ==
    RatAdd(RatMul(RatDiv(RatSub(raw, mu), sigma), critical_sigma), critical_mu)

\* A lookup that raises for every region but DEFAULT.
get_cell_criticals_raises_region(reg) == reg # "DEFAULT"

\* A lookup VOLUME_MU[region] ... CRITICAL_HEIGHT_SIGMA[region] raises KeyError.
get_cell_criticals_raises(reg) == \E name \in DOMAIN config : reg \notin DOMAIN config[name]

\* The returned (critical_volume, critical_height), when no lookup raises.
get_cell_criticals(table, ref, reg) ==
    <<z_score_rescale(raw_volume(table, ref, reg), config.VOLUME_MU[reg],
                      config.VOLUME_SIGMA[reg], config.CRITICAL_VOLUME_MU[reg],
                      config.CRITICAL_VOLUME_SIGMA[reg]),
      z_score_rescale(raw_height(table, ref, reg), config.HEIGHT_MU[reg],
                      config.HEIGHT_SIGMA[reg], config.CRITICAL_HEIGHT_MU[reg],
                      config.CRITICAL_HEIGHT_SIGMA[reg])>>

get_cell_regions_raises(table) ==
    \E i \in 1..Len(groupby_region_keys(table)) :
        get_cell_criticals_raises(groupby_region_keys(table)[i])

\* Sub-records that each carry the voxels and criticals of the whole cell.
get_cell_regions_whole_cell(table, ref) ==
    LET keys == groupby_region_keys(table)
    IN  [i \in 1..Len(keys) |->
            [region |-> keys[i],
             voxels |-> len(table),
             criticals |-> get_cell_criticals(table, ref, keys[i])]]

\* One sub-record per key of samples.groupby("region"), when no lookup raises.
get_cell_regions(table, ref) ==
    LET keys == groupby_region_keys(table)
    IN  [i \in 1..Len(keys) |->
            [region |-> keys[i],
             voxels |-> len(region_group(table, keys[i])),
             criticals |-> get_cell_criticals(region_group(table, keys[i]), ref, keys[i])]]

convert_to_cell_raises(table) ==
    \/ get_cell_criticals_raises("DEFAULT")
    \/ table.region_col /\ get_cell_regions_raises(table)

\* A cell record whose voxels is the volume the criticals are computed from
\* (the reference volume when the reference has one).
convert_to_cell_reference_volume(id, table, ref) ==
    LET vol == RatTrunc(raw_volume(table, ref, "DEFAULT"))
        crit == get_cell_criticals(table, ref, "DEFAULT")
        sp == get_cell_phase(len(table), crit[1])
        rec == [id |-> id, parent |-> 0, pop |-> 1, age |-> 0, divisions |-> 0,
                state |-> sp[1], phase |-> sp[2], voxels |-> vol, criticals |-> crit]
    IN  IF table.region_col
        THEN rec @@ [regions |-> get_cell_regions(table, ref)]
        ELSE rec

\* The returned cell record, when no lookup raises.
convert_to_cell(id, table, ref) ==
    LET vol == len(table)
        crit == get_cell_criticals(table, ref, "DEFAULT")
        sp == get_cell_phase(vol, crit[1])
        rec == [id |-> id, parent |-> 0, pop |-> 1, age |-> 0, divisions |-> 0,
                state |-> sp[1], phase |-> sp[2], voxels |-> vol, criticals |-> crit]
    IN  IF table.region_col
        THEN rec @@ [regions |-> get_cell_regions(table, ref)]
        ELSE rec

-----------------------------------------------------------------------------
(* ProcessSamples.get_step_size, ConvertARCADE.calculate_sample_transform,  *)
(* transform_sample_voxels and make_setup_file                              *)

coords == <<"x", "y", "z">>
sizes == <<"length", "width", "height">>

\* The position of an axis in coords, sizes and margins.
axis_index(axis) == CHOOSE k \in 1..Len(coords) : coords[k] = axis

\* The values of one column.
column_values(table, axis) == {table.rows[i][axis] : i \in 1..Len(table.rows)}

\* The positive differences between the values of one column.
column_deltas(table, axis) ==
    {RatSub(b, a) : <<a, b>> \in {ab \in column_values(table, axis) \X column_values(table, axis) :
                                      RatLess(ab[1], ab[2])}}

\* ProcessSamples.get_step_size is not among the sources; by the specification
\* it is the smallest positive coordinate delta observed on the axis, and the
\* resolution unit 1 on a degenerate axis.
get_step_size(table, axis) ==
    IF column_deltas(table, axis) = {} THEN RatInt(1) ELSE RatSetMin(column_deltas(table, axis))

\* -(mins[i] / steps[i]) + margin + 1
axis_offset(minimum, step, margin) ==
    RatAdd(RatAdd(RatNeg(RatDiv(minimum, step)), RatInt(margin)), RatInt(1))

\* (maxs[i] - mins[i]) / steps[i] + 2 * margin + 3
axis_bound(minimum, maximum, step, margin) ==
    RatAdd(RatAdd(RatDiv(RatSub(maximum, minimum), step), RatInt(2 * margin)), RatInt(3))

calculate_sample_transform(df, margin) ==
    LET steps == [axis \in {"x", "y", "z"} |-> get_step_size(df, axis)]
        mins == [axis \in {"x", "y", "z"} |-> column_min(df, axis)]
        maxs == [axis \in {"x", "y", "z"} |-> column_max(df, axis)]
    IN  [steps |-> steps,
         offsets |-> [axis \in {"x", "y", "z"} |->
                        axis_offset(mins[axis], steps[axis], margin[axis_index(axis)])],
         bounds |-> [size \in {"length", "width", "height"} |->
                        LET k == CHOOSE j \in 1..Len(sizes) : sizes[j] = size
                        IN  axis_bound(mins[coords[k]], maxs[coords[k]], steps[coords[k]], margin[k])]]

\* A transform that adds the offset before dividing by the step.
transform_coordinate_shift_first(raw, step, offset) ==
    RatInt(RatTrunc(RatDiv(RatAdd(raw, offset), step)))

\* df[i].divide(steps[i]).astype("int32") + offsets[i], for one value
transform_coordinate(raw, step, offset) ==
    RatAdd(RatInt(RatTrunc(RatDiv(raw, step))), offset)

transform_sample_voxels(df, steps, offsets) ==
    Table(df.region_col,
          [i \in 1..Len(df.rows) |->
              [df.rows[i] EXCEPT
                  !.x = transform_coordinate(@, steps.x, offsets.x),
                  !.y = transform_coordinate(@, steps.y, offsets.y),
                  !.z = transform_coordinate(@, steps.z, offsets.z)]])

\* region_samples["region"] = region
set_region(table, reg) ==
    Table(TRUE, [i \in 1..Len(table.rows) |-> [table.rows[i] EXCEPT !.region = reg]])

\* A region table transformed by steps and offsets computed from itself.
region_samples_own_transform(region_table, reg, steps, offsets) ==
    LET own == calculate_sample_transform(region_table, margins)
    IN  set_region(transform_sample_voxels(region_table, own.steps, own.offsets), reg)

\* region_samples = self.transform_sample_voxels(region_df, steps, offsets)
\* region_samples["region"] = region
make_region_samples(region_table, reg, steps, offsets) ==
    set_region(transform_sample_voxels(region_table, steps, offsets), reg)

\* The distinct values of seq, in order of first appearance (Series.unique()).
RECURSIVE unique(_)
unique(seq) ==
    IF seq = <<>> THEN <<>>
    ELSE LET front == unique(SubSeq(seq, 1, Len(seq) - 1))
             last == seq[Len(seq)]
         IN  IF \E i \in 1..Len(front) : front[i] = last THEN front ELSE Append(front, last)

POTTS_TERMS == <<"volume", "adhesion">>

\* A setup whose init counts the rows of the table and whose population has
\* one region element per row.
make_setup_file_per_row(table, length, width, height) ==
    [height |-> RatTrunc(height),
     length |-> RatTrunc(length),
     width |-> RatTrunc(width),
     terms |-> POTTS_TERMS,
     populations |->
        <<[id |-> "X",
           init |-> Len(table.rows),
           regions |-> IF table.region_col
                       THEN [j \in 1..Len(table.rows) |->
                                [id |-> table.rows[j].region, fraction |-> "0.5"]]
                       ELSE <<>>]>>]

\* The attributes of the series element (str(int(...)) kept as the integer),
\* the ids of the potts terms, and the populations: one population X with its
\* init and one population.region element per value of samples.region.unique().
make_setup_file(table, length, width, height) ==
    [height |-> RatTrunc(height),
     length |-> RatTrunc(length),
     width |-> RatTrunc(width),
     terms |-> POTTS_TERMS,
     populations |->
        <<[id |-> "X",
           init |-> Len(unique([i \in 1..Len(table.rows) |-> table.rows[i].id])),
           regions |-> IF table.region_col
                       THEN LET names == unique([i \in 1..Len(table.rows) |-> table.rows[i].region])
                            IN  [j \in 1..Len(names) |-> [id |-> names[j], fraction |-> "0.5"]]
                       ELSE <<>>]>>]

-----------------------------------------------------------------------------
(* ConvertARCADE.filter_valid_samples                                      *)

\* The rows of one id, in the table's order: a group of samples.groupby("id").
id_group(table, id) == Table(table.region_col, SelectSeq(table.rows, LAMBDA r : r.id = id))

\* x.region.unique()
region_unique(table) == unique([i \in 1..Len(table.rows) |-> table.rows[i].region])

\* A group test that keeps every group with a region.
group_has_a_region(group) == Len(region_unique(group)) > 0

\* lambda x: len(x.region.unique()) > 1
group_has_regions(group) == Len(region_unique(group)) > 1

\* A filter whose threshold is relative to the table: it removes the cells
\* with the fewest distinct regions of the table.
filter_fewest_regions(table) ==
    IF table.region_col
    THEN LET count(r) == Len(region_unique(id_group(table, r.id)))
         IN  Table(TRUE, SelectSeq(table.rows,
                 LAMBDA r : \E j \in 1..Len(table.rows) : count(table.rows[j]) < count(r)))
    ELSE table

\* groupby("id").filter(...) keeps the rows of the passing groups in the
\* table's order.
filter_valid_samples(table) ==
    IF table.region_col
    THEN Table(TRUE, SelectSeq(table.rows, LAMBDA r : group_has_regions(id_group(table, r.id))))
    ELSE table

-----------------------------------------------------------------------------
(* ConvertARCADE.make_location_center, make_location_voxels and             *)
(* convert_to_location                                                      *)

RECURSIVE RatSum(_)
RatSum(seq) == IF seq = <<>> THEN RatInt(0) ELSE RatAdd(Head(seq), RatSum(Tail(seq)))

\* samples[v].mean()
column_mean(table, axis) ==
    RatDiv(RatSum([i \in 1..Len(table.rows) |-> table.rows[i][axis]]), RatInt(Len(table.rows)))

\* A center that rounds each mean up to the next integer.
make_location_center_ceil(table) ==
    [k \in 1..Len(coords) |-> -RatFloor(RatNeg(column_mean(table, coords[k])))]

\* [int(samples[v].mean()) for v in ["x", "y", "z"]]
make_location_center(table) ==
    [k \in 1..Len(coords) |-> RatTrunc(column_mean(table, coords[k]))]

\* [[int(v) for v in voxel] for voxel in xyz_samples]
make_location_voxels(table) ==
    [i \in 1..Len(table.rows) |->
        <<RatTrunc(table.rows[i].x), RatTrunc(table.rows[i].y), RatTrunc(table.rows[i].z)>>]

\* A location list that puts every voxel of the cell into each region's bucket.
location_buckets_whole_cell(table) ==
    IF ~table.region_col
    THEN <<[region |-> "UNDEFINED", voxels |-> make_location_voxels(table)]>>
    ELSE LET keys == groupby_region_keys(table)
         IN  [i \in 1..Len(keys) |-> [region |-> keys[i], voxels |-> make_location_voxels(table)]]

\* The location list: one UNDEFINED bucket, or one bucket per key of
\* samples.groupby("region").
location_buckets(table) ==
    IF ~table.region_col
    THEN <<[region |-> "UNDEFINED", voxels |-> make_location_voxels(table)]>>
    ELSE LET keys == groupby_region_keys(table)
         IN  [i \in 1..Len(keys) |->
                 [region |-> keys[i], voxels |-> make_location_voxels(region_group(table, keys[i]))]]

convert_to_location(id, table) ==
    [id |-> id, center |-> make_location_center(table), location |-> location_buckets(table)]

-----------------------------------------------------------------------------
(* ConvertARCADE.run and convert_arcade: the steps between the transform    *)
(* and the saved files                                                      *)

\* The rows of right that match a row of left on ["id", "x", "y", "z"].
merge_matches(row, right) ==
    SelectSeq(right.rows, LAMBDA r : r.id = row.id /\ r.x = row.x /\ r.y = row.y /\ r.z = row.z)

\* samples.merge(region_samples, on=["id", "x", "y", "z"], how="left") and
\* samples["region"].fillna("DEFAULT", inplace=True): every row of samples in
\* order, once per matching row of region_samples with that row's region, and
\* once with DEFAULT when no row matches.
RECURSIVE merge_rows(_, _)
merge_rows(rows, right) ==
    IF rows = <<>> THEN <<>>
    ELSE LET row == Head(rows)
             matches == merge_matches(row, right)
         IN  (IF matches = <<>>
              THEN <<[row EXCEPT !.region = "DEFAULT"]>>
              ELSE [j \in 1..Len(matches) |-> [row EXCEPT !.region = matches[j].region]])
             \o merge_rows(Tail(rows), right)

merge_region_samples(left, right) == Table(TRUE, merge_rows(left.rows, right))

\* The members of a set of integers in ascending order.
RECURSIVE ascending(_)
ascending(S) ==
    IF S = {} THEN <<>>
    ELSE LET m == CHOOSE a \in S : \A b \in S : a <= b
         IN  <<m>> \o ascending(S \ {m})

\* The keys of samples.groupby("id"): the distinct ids, sorted.
groupby_id_keys(table) == ascending({table.rows[j].id : j \in 1..Len(table.rows)})

\* A selection that keeps the reference rows of every key.
select_all_keys(reference_table, key_name) == reference_table

\* reference[reference.key == key]
select_key_reference(reference_table, key_name) ==
    SelectSeq(reference_table, LAMBDA r : r[<<"key">>] = key_name)

\* reference[reference.id == sample_id].squeeze(), then .to_dict() if it is not
\* empty else {}.  The reference holds at most one row per key and id; the row
\* is the mapping from its column names to its values.
cell_reference(reference_table, sample_id) ==
    LET matching == SelectSeq(reference_table, LAMBDA r : r[<<"id">>] = sample_id)
    IN  IF matching = <<>> THEN <<>> ELSE matching[1]

\* An output id that is the group's own sample id.
output_id_sample(i, sample_id) == sample_id

\* The id convert_arcade passes for the group at the 0-based position i of
\* enumerate(samples_by_id): i + 1.
output_id(i, sample_id) == i + 1

-----------------------------------------------------------------------------
(* Bounds and inputs of the classifier harness.                            *)

MaxVolume == 2000

\* Critical volumes the classifier is called with: negative, zero, one on
\* which no scaled threshold is an integer but 1, and round ones.
CriticalVolumes == {-70, 0, 1, 4, 250, 1000}

ClassifierIdle ==
    /\ volume = None
    /\ critical_volume = None
    /\ cell_phase = None

CellIdle ==
    /\ config = None
    /\ samples = None
    /\ reference = None
    /\ region = None
    /\ criticals = None
    /\ cell = None

TransformIdle ==
    /\ samples_df = None
    /\ region_df = None
    /\ margins = None
    /\ transform = None
    /\ region_samples = None
    /\ setup = None

FlowIdle ==
    /\ parameters = None
    /\ conditions = None
    /\ fov = None

DockerIdle ==
    /\ context = None
    /\ docker_args = None
    /\ docker_log = None
    /\ item_index = None

LocalIdle ==
    /\ selected_fovs = None
    /\ location_keys = None
    /\ docker_volume = None
    /\ tasks = None
    /\ all_fovs = None
    /\ fov_index = None
    /\ channel = None

LocationIdle ==
    /\ cell_id = None
    /\ location = None

RunIdle ==
    /\ working = None
    /\ saved = None
    /\ context_keys = None
    /\ key = None
    /\ run_reference = None
    /\ key_reference = None
    /\ cells = None
    /\ locations = None
    /\ loop_i = None

InitPhase ==
    /\ pc = "get_cell_phase"
    /\ volume \in 0..MaxVolume
    /\ critical_volume \in {RatInt(cv) : cv \in CriticalVolumes}
    /\ cell_phase = None
    /\ raised = None
    /\ merged = None
    /\ CellIdle
    /\ TransformIdle
    /\ LocationIdle
    /\ RunIdle
    /\ FlowIdle
    /\ DockerIdle
    /\ LocalIdle

\* state, phase = ConvertARCADE.get_cell_phase(volume, critical_volume)
CallGetCellPhase ==
    /\ pc = "get_cell_phase"
    /\ cell_phase' = get_cell_phase(volume, critical_volume)
    /\ pc' = "get_cell_phase.return"
    /\ UNCHANGED <<volume, critical_volume, raised, cellVars, transformVars, merged,
                   locationVars, runVars, flowVars, dockerVars, localVars>>

NextPhase == CallGetCellPhase

SpecPhase == InitPhase /\ [][NextPhase]_vars

-----------------------------------------------------------------------------
(* Properties of the classifier, checked under SpecPhase.                  *)

\* The labels of the five thresholds, lowest first.
Labels ==
    <<"APOPTOTIC_LATE", "APOPTOTIC_EARLY", "PROLIFERATIVE_G1", "PROLIFERATIVE_S",
      "PROLIFERATIVE_G2">>

Classified == pc = "get_cell_phase.return"

PositiveCritical == RatLess(RatInt(0), critical_volume)

\* The i-th scaled threshold of the code, and whether it exceeds the volume.
Scaled(i) == RatMul(fractions[i], critical_volume)
Exceeds(i) == RatLess(RatInt(volume), Scaled(i))

\* The positions of the thresholds whose scaled value is <= volume.
NotExceeding == {j \in 1..Len(fractions) : ~Exceeds(j)}

SetMax(S) == CHOOSE m \in S : \A k \in S : k <= m

\* C1: for every volume and every positive critical volume the classifier
\* returns the label of the first threshold whose scaled value is strictly
\* greater than volume, and the last label when none is; a volume equal to a
\* scaled breakpoint that has a next label gets that next label, a volume one
\* below a breakpoint gets no higher label than the breakpoint's own; with
\* critical_volume = 1000: 0 and 249 give APOPTOTIC_LATE, 250 gives
\* APOPTOTIC_EARLY, 2000 gives PROLIFERATIVE_G2.
C1_FirstStrictlyGreater ==
    (Classified /\ PositiveCritical) =>
        LET phase == cell_phase[2]
            n == Len(fractions)
        IN  /\ \E i \in 1..n :
                /\ phase = Labels[i]
                /\ \A j \in 1..(i - 1) : ~Exceeds(j)
                /\ Exceeds(i) \/ (i = n /\ ~Exceeds(n))
            /\ \A i \in 1..(n - 1) :
                Scaled(i) = RatInt(volume) => phase = Labels[i + 1]
            /\ \A i \in 1..n :
                Scaled(i) = RatInt(volume + 1) => \E k \in 1..i : phase = Labels[k]
            /\ critical_volume = RatInt(1000) =>
                /\ volume \in {0, 249} => phase = "APOPTOTIC_LATE"
                /\ volume = 250 => phase = "APOPTOTIC_EARLY"
                /\ volume = 2000 => phase = "PROLIFERATIVE_G2"

\* C1 witness: a volume exactly on the first scaled breakpoint got the next label.
C1_Witness ==
    /\ Classified
    /\ critical_volume = RatInt(1000)
    /\ volume = 250
    /\ cell_phase = <<"APOPTOTIC", "APOPTOTIC_EARLY">>

\* C2 as stated: the classifier selects the last threshold whose scaled value
\* is <= volume, and the first threshold when volume is below every one.
C2_LastNotExceeding ==
    Classified =>
        cell_phase[2] =
            IF NotExceeding = {} THEN Labels[1] ELSE Labels[SetMax(NotExceeding)]

\* C2 amended: the classifier selects the threshold that follows the last
\* threshold whose scaled value is <= volume (that last threshold itself when
\* no threshold follows it), and the first threshold when volume is below
\* every scaled threshold; there is no separate 'below all' result.
C2_AfterLastNotExceeding ==
    Classified =>
        /\ cell_phase[2] =
            IF NotExceeding = {} THEN Labels[1]
            ELSE IF SetMax(NotExceeding) = Len(fractions) THEN Labels[Len(fractions)]
            ELSE Labels[SetMax(NotExceeding) + 1]
        /\ \E i \in 1..Len(fractions) : cell_phase[2] = Labels[i]

\* C2 witness: the last threshold not exceeding the volume is PROLIFERATIVE_G1
\* and the threshold after it was selected.
C2_Witness ==
    /\ Classified
    /\ critical_volume = RatInt(1000)
    /\ volume = 1124
    /\ SetMax(NotExceeding) = 3
    /\ cell_phase[2] = "PROLIFERATIVE_S"

\* The default breakpoints C3 states, as fractions of the critical volume.
ClaimedFractions == <<Milli(250), Milli(900), Milli(1124), Milli(1726), Milli(1969)>>

ClaimedExceeds(i) == RatLess(RatInt(volume), RatMul(ClaimedFractions[i], critical_volume))

\* C3 as stated: the breakpoints are 0.25, 0.90, 1.124, 1.726 and 1.969 times
\* the critical volume, only the five labels are returned, and with
\* critical_volume = 1000 volume 899 is APOPTOTIC_EARLY and volume 900 is
\* PROLIFERATIVE_G1.
C3_DefaultBreakpoints ==
    (Classified /\ PositiveCritical) =>
        LET phase == cell_phase[2]
            n == Len(ClaimedFractions)
        IN  /\ \E i \in 1..n :
                /\ phase = Labels[i]
                /\ \A j \in 1..(i - 1) : ~ClaimedExceeds(j)
                /\ ClaimedExceeds(i) \/ (i = n /\ ~ClaimedExceeds(n))
            /\ critical_volume = RatInt(1000) =>
                /\ volume = 899 => phase = "APOPTOTIC_EARLY"
                /\ volume = 900 => phase = "PROLIFERATIVE_G1"

\* The position among the five thresholds of the threshold carrying a label.
LabelIndex(label) == CHOOSE i \in 1..Len(Labels) : Labels[i] = label

\* The volumes not above the classified one that it is compared with: the
\* volume just below it (which by induction covers every pair of volumes),
\* zero, half of it, and the volumes around every scaled breakpoint.
LowerVolumes ==
    {v \in {volume - 1, 0, volume \div 2}
            \cup UNION {{RatFloor(Scaled(i)) - 1, RatFloor(Scaled(i)), RatFloor(Scaled(i)) + 1} :
                            i \in 1..Len(fractions)} :
        v >= 0 /\ v <= volume}

\* C21: the classifier is monotonic in volume: with critical_volume fixed, for
\* volume1 <= volume2 the threshold selected for volume2 has no lower index
\* than the threshold selected for volume1.
C21_MonotonicInVolume ==
    Classified =>
        \A volume1 \in LowerVolumes :
            LabelIndex(get_cell_phase(volume1, critical_volume)[2]) <= LabelIndex(cell_phase[2])

\* C21 witness: the volume just below the classified one selects a strictly
\* lower threshold, and the classified one selects the last threshold.
C21_Witness ==
    /\ Classified
    /\ PositiveCritical
    /\ volume > 0
    /\ LabelIndex(cell_phase[2]) = Len(Labels)
    /\ LabelIndex(get_cell_phase(volume - 1, critical_volume)[2]) < Len(Labels)

\* The positions of the underscores of a text, and the text before the first.
Underscores(text) == {p \in 1..Len(text) : SubSeq(text, p, p) = "_"}

BeforeFirstUnderscore(text) ==
    SubSeq(text, 1, (CHOOSE p \in Underscores(text) : \A q \in Underscores(text) : p <= q) - 1)

\* C22: for every classification result, phase is the full label of the
\* selected threshold and state is the text of that label before its first
\* underscore; state and phase come from the same threshold.
C22_StateIsLabelPrefix ==
    Classified =>
        LET state == cell_phase[1]
            phase == cell_phase[2]
        IN  /\ \E i \in 1..Len(Labels) :
                /\ phase = Labels[i]
                /\ state = states[i]
                /\ phase = state \o "_" \o phases[i]
            /\ Underscores(phase) # {}
            /\ state = BeforeFirstUnderscore(phase)
            /\ Underscores(state) = {}

\* C22 witness: a proliferative label was returned together with its state.
C22_Witness ==
    /\ Classified
    /\ cell_phase[2] = "PROLIFERATIVE_G1"
    /\ cell_phase[1] = "PROLIFERATIVE"
    /\ BeforeFirstUnderscore(cell_phase[2]) = "PROLIFERATIVE"

-----------------------------------------------------------------------------
(* Harness of get_cell_criticals and convert_to_cell: the static methods   *)
(* called directly, as the tests do, on one cell's sample group.           *)

MaxGroupRows == 2

\* Sample counts of the tests: np.zeros((num_samples, 4)).
NumSamplesCritical == 1000
NumSamplesCell == 100
NumSamplesRegionA == 60

ZValues == {0, 3, 10}

\* n rows of zeros tagged reg.
Zeros(n, reg) == [i \in 1..n |-> Row(0, 0, 0, 0, reg)]

GroupRows(region_col) ==
    {Row(1, 0, 0, z, reg) : z \in ZValues,
                            reg \in IF region_col THEN {"DEFAULT", "NUCLEUS"} ELSE {None}}

SmallGroups(region_col) ==
    {Table(region_col, rows) :
        rows \in UNION {[1..n -> GroupRows(region_col)] : n \in 1..MaxGroupRows}}

TestGroups ==
    {Table(FALSE, Zeros(NumSamplesCritical, None)),
     Table(FALSE, Zeros(NumSamplesCell, None)),
     Table(TRUE, Zeros(NumSamplesRegionA, "DEFAULT")
                 \o Zeros(NumSamplesCell - NumSamplesRegionA, "NUCLEUS"))}

CellGroups == SmallGroups(FALSE) \cup SmallGroups(TRUE) \cup TestGroups

\* Per-cell reference mappings: none, the ones of the tests, and partial ones.
References ==
    {<<>>,
     (<<"volume">> :> RatInt(1500)) @@ (<<"height">> :> RatInt(20)),
     (<<"volume">> :> RatInt(1000)) @@ (<<"height">> :> RatInt(100))
        @@ (<<"volume", "NUCLEUS">> :> RatInt(500)) @@ (<<"height", "NUCLEUS">> :> RatInt(50)),
     (<<"volume">> :> RatInt(1500)),
     (<<"height">> :> RatInt(20)),
     (<<"volume", "REGION">> :> RatInt(400)) @@ (<<"height", "REGION">> :> RatInt(40))}

InitCell ==
    /\ pc = "cell"
    /\ config \in Configs
    /\ samples \in CellGroups
    /\ reference \in References
    /\ region \in {RegionNames[i] : i \in 1..Len(RegionNames)}
    /\ criticals = None
    /\ cell = None
    /\ raised = None
    /\ merged = None
    /\ ClassifierIdle
    /\ TransformIdle
    /\ cell_id \in {1, 10}
    /\ location = None
    /\ RunIdle
    /\ FlowIdle
    /\ DockerIdle
    /\ LocalIdle

\* ConvertARCADE.get_cell_criticals(samples, reference, region)
CallGetCellCriticals ==
    /\ pc = "cell"
    /\ pc' = "get_cell_criticals.return"
    /\ IF get_cell_criticals_raises(region)
       THEN raised' = KeyError /\ criticals' = criticals
       ELSE raised' = None /\ criticals' = get_cell_criticals(samples, reference, region)
    /\ UNCHANGED <<config, samples, reference, region, cell, classifierVars, transformVars, merged,
                   locationVars, runVars, flowVars, dockerVars, localVars>>

\* ConvertARCADE.convert_to_cell(cell_id, samples, reference)
CallConvertToCell ==
    /\ pc = "cell"
    /\ pc' = "convert_to_cell.return"
    /\ IF convert_to_cell_raises(samples)
       THEN raised' = KeyError /\ cell' = cell
       ELSE raised' = None /\ cell' = convert_to_cell(cell_id, samples, reference)
    /\ UNCHANGED <<config, samples, reference, region, criticals, classifierVars, transformVars, merged,
                   locationVars, runVars, flowVars, dockerVars, localVars>>

NextCell == CallGetCellCriticals \/ CallConvertToCell

SpecCell == InitCell /\ [][NextCell]_vars

-----------------------------------------------------------------------------
(* Properties of the critical values, checked under SpecCell.              *)

CriticalsReturned == pc = "get_cell_criticals.return" /\ raised = None
CellReturned == pc = "convert_to_cell.return" /\ raised = None

\* The reference field of a region: `volume` for the cell, `volume.<region>` otherwise.
FieldOf(field, reg) == IF reg = "DEFAULT" THEN <<field>> ELSE <<field, reg>>

\* raw, rescaled from (mu, sigma) to (critical mu, critical sigma), equals value:
\* value * sigma = (raw - mu) * critical_sigma + critical_mu * sigma.
IsRescaled(value, raw, mu, sigma, cmu, csigma) ==
    RatMul(value, sigma) = RatAdd(RatMul(RatSub(raw, mu), csigma), RatMul(cmu, sigma))

RegionsOf(table) == {table.rows[i].region : i \in 1..Len(table.rows)}

\* C5 as stated: given a reference with `volume` and `height` (and
\* `volume.<region>`, `height.<region>` for each region), convert_to_cell emits
\* criticals equal to exactly those reference values for the cell and for each
\* region sub-record, voxels equal to the sample count, and the state
\* classified from (sample count, reference volume).
C5_ReferenceCriticals ==
    (/\ CellReturned
     /\ {<<"volume">>, <<"height">>} \subseteq DOMAIN reference
     /\ samples.region_col =>
            \A r \in RegionsOf(samples) :
                {FieldOf("volume", r), FieldOf("height", r)} \subseteq DOMAIN reference) =>
        /\ cell.criticals = <<reference[<<"volume">>], reference[<<"height">>]>>
        /\ cell.voxels = Len(samples.rows)
        /\ <<cell.state, cell.phase>> = get_cell_phase(Len(samples.rows), reference[<<"volume">>])
        /\ samples.region_col =>
            \A i \in 1..Len(cell.regions) :
                cell.regions[i].criticals =
                    <<reference[FieldOf("volume", cell.regions[i].region)],
                      reference[FieldOf("height", cell.regions[i].region)]>>

\* C6 as stated: the critical height is the rescaled raw height, the raw
\* height being max(z) - min(z) over the samples when the reference supplies no
\* height for the region and the reference's height when it does.
C6_ReferenceHeight ==
    CriticalsReturned =>
        LET raw == IF FieldOf("height", region) \in DOMAIN reference
                   THEN reference[FieldOf("height", region)]
                   ELSE RatSub(column_max(samples, "z"), column_min(samples, "z"))
        IN  IsRescaled(criticals[2], raw, config.HEIGHT_MU[region],
                       config.HEIGHT_SIGMA[region], config.CRITICAL_HEIGHT_MU[region],
                       config.CRITICAL_HEIGHT_SIGMA[region])

\* The rows of the sample group tagged with region r, in the group's order.
RowsTagged(r) == Table(samples.region_col, SelectSeq(samples.rows, LAMBDA row : row.region = r))

\* C13: convert_to_cell emits a record with the given id, parent 0, pop 1,
\* age 0, divisions 0, voxels the number of sample rows, criticals the pair
\* (critical_volume, critical_height) of the cell, and state and phase from the
\* classifier applied to (voxels, critical_volume); the record has a regions
\* list exactly when the samples have a region column, with exactly one
\* sub-record per distinct region, holding that region's row count and the
\* criticals computed from that region's rows for that region.
C13_CellRecord ==
    CellReturned =>
        /\ cell.id = cell_id
        /\ cell.parent = 0 /\ cell.pop = 1 /\ cell.age = 0 /\ cell.divisions = 0
        /\ cell.voxels = Len(samples.rows)
        /\ cell.criticals = get_cell_criticals(samples, reference, "DEFAULT")
        /\ <<cell.state, cell.phase>> = get_cell_phase(cell.voxels, cell.criticals[1])
        /\ ("regions" \in DOMAIN cell) <=> samples.region_col
        /\ samples.region_col =>
            /\ Len(cell.regions) = Cardinality(RegionsOf(samples))
            /\ \A r \in RegionsOf(samples) :
                \E k \in 1..Len(cell.regions) :
                    /\ cell.regions[k].region = r
                    /\ cell.regions[k].voxels = Len(RowsTagged(r).rows)
                    /\ cell.regions[k].criticals = get_cell_criticals(RowsTagged(r), reference, r)

\* C13 witness: the 100 samples of the tests, 60 in one region and 40 in the
\* other, converted with id 10.
C13_Witness ==
    /\ CellReturned
    /\ cell_id = 10
    /\ samples.region_col
    /\ cell.voxels = 100
    /\ Len(cell.regions) = 2
    /\ cell.regions[1].voxels = 60
    /\ cell.regions[2].voxels = 40

-----------------------------------------------------------------------------
(* Harness of convert_to_location: the static method called directly, as    *)
(* the tests do, on one cell's sample group in grid coordinates.           *)

MaxLocationRows == 3

\* Grid x coordinates: integers, and a fraction as the transform yields for a
\* table whose minimum is off its grid.  Grid coordinates are positive.
LocationXs == {RatInt(1), RatInt(2), RatInt(4), Rat(5, 3)}

\* One row per x: y = 2 x and z = x + 5, as in the table of the tests.
LocationRow(x, reg) ==
    [id |-> 1, x |-> x, y |-> RatMul(RatInt(2), x), z |-> RatAdd(x, RatInt(5)), region |-> reg]

\* The table of the tests: x = 1..5, y = 2, 4, .., 10, z = 6..10.
TestLocationSamples == Table(FALSE, [n \in 1..5 |-> LocationRow(RatInt(n), None)])

LocationGroups(region_col) ==
    {Table(region_col, rows) :
        rows \in UNION {[1..n -> {LocationRow(x, reg) :
                                     x \in LocationXs,
                                     reg \in IF region_col
                                             THEN {"DEFAULT", "NUCLEUS", "REGION"}
                                             ELSE {None}}] : n \in 1..MaxLocationRows}}

InitLocation ==
    /\ pc = "location"
    /\ samples \in LocationGroups(FALSE) \cup LocationGroups(TRUE) \cup {TestLocationSamples}
    /\ cell_id \in {1, 10}
    /\ location = None
    /\ raised = None
    /\ merged = None
    /\ config = None
    /\ reference = None
    /\ region = None
    /\ criticals = None
    /\ cell = None
    /\ ClassifierIdle
    /\ TransformIdle
    /\ RunIdle
    /\ FlowIdle
    /\ DockerIdle
    /\ LocalIdle

\* ConvertARCADE.convert_to_location(cell_id, samples)
CallConvertToLocation ==
    /\ pc = "location"
    /\ location' = convert_to_location(cell_id, samples)
    /\ pc' = "convert_to_location.return"
    /\ UNCHANGED <<cell_id, samples, raised, merged, config, reference, region, criticals, cell,
                   classifierVars, transformVars, runVars, flowVars, dockerVars, localVars>>

NextLocation == CallConvertToLocation

SpecLocation == InitLocation /\ [][NextLocation]_vars

-----------------------------------------------------------------------------
(* Properties of the location record, checked under SpecLocation.          *)

LocationReturned == pc = "convert_to_location.return"

\* The integer c is the integer part of the non-negative coordinate q.
IntegerPart(c, q) == RatLeq(RatInt(c), q) /\ RatLess(q, RatInt(c + 1))

\* The triple is the row's voxel as integers.
VoxelOfRow(triple, row) ==
    /\ Len(triple) = 3
    /\ \A k \in 1..3 : IntegerPart(triple[k], row[coords[k]])

\* The bucket holds exactly the rows at the ascending positions in order.
BucketHolds(bucket, positions) ==
    /\ Len(bucket.voxels) = Cardinality(positions)
    /\ \A p \in positions :
        VoxelOfRow(bucket.voxels[Cardinality({q \in positions : q <= p})], samples.rows[p])

PositionsTagged(r) == {p \in 1..Len(samples.rows) : samples.rows[p].region = r}

\* C14: for samples without a region column convert_to_location emits exactly
\* one bucket, with region UNDEFINED, holding every voxel of the cell as an
\* integer (x, y, z) triple in the original row order; for samples with a
\* region column it emits exactly one bucket per distinct region, each holding
\* exactly the rows tagged with that region in the original row order, so
\* every voxel of the cell is in exactly one bucket.
C14_LocationBuckets ==
    LocationReturned =>
        IF ~samples.region_col
        THEN /\ Len(location.location) = 1
             /\ location.location[1].region = "UNDEFINED"
             /\ BucketHolds(location.location[1], 1..Len(samples.rows))
        ELSE /\ Len(location.location) = Cardinality(RegionsOf(samples))
             /\ \A r \in RegionsOf(samples) :
                 \E k \in 1..Len(location.location) :
                     /\ location.location[k].region = r
                     /\ BucketHolds(location.location[k], PositionsTagged(r))
             /\ \A k \in 1..Len(location.location) :
                 location.location[k].region \in RegionsOf(samples)

\* C14 witness: three rows tagged NUCLEUS, DEFAULT, NUCLEUS gave two buckets,
\* the second holding the first and the third row.
C14_Witness ==
    /\ LocationReturned
    /\ samples.region_col
    /\ Len(samples.rows) = 3
    /\ PositionsTagged("NUCLEUS") = {1, 3}
    /\ PositionsTagged("DEFAULT") = {2}
    /\ samples.rows[1].x # samples.rows[3].x
    /\ Len(location.location) = 2
    /\ Len(location.location[2].voxels) = 2

\* The mean of the cell's coordinates on an axis.
MeanOf(axis) ==
    RatDiv(RatSum([p \in 1..Len(samples.rows) |-> samples.rows[p][axis]]),
           RatInt(Len(samples.rows)))

\* The integer voxel coordinates the location record holds on the k-th axis.
VoxelCoordinates(k) ==
    {location.location[b].voxels[v][k] :
        <<b, v>> \in {bv \in (1..Len(location.location)) \X (1..Len(samples.rows)) :
                        bv[2] <= Len(location.location[bv[1]].voxels)}}

\* C15: on each axis the location center is the mean of the cell's voxel
\* coordinates truncated to the nearest integer below (the floor, never
\* rounded up), so it lies between the minimum and the maximum voxel
\* coordinate of the axis; x = 1..5, y = 2, 4, .., 10, z = 6..10 give (3, 6, 8).
C15_CenterIsFloorOfMean ==
    LocationReturned =>
        /\ Len(location.center) = 3
        /\ \A k \in 1..3 :
            /\ IntegerPart(location.center[k], MeanOf(coords[k]))
            /\ \E c \in VoxelCoordinates(k) : c <= location.center[k]
            /\ \E c \in VoxelCoordinates(k) : location.center[k] <= c
            /\ (\A p \in 1..Len(samples.rows) : RatIsInt(samples.rows[p][coords[k]])) =>
                /\ RatLeq(column_min(samples, coords[k]), RatInt(location.center[k]))
                /\ RatLeq(RatInt(location.center[k]), column_max(samples, coords[k]))
        /\ samples = TestLocationSamples => location.center = <<3, 6, 8>>

\* C15 witness: x coordinates 1 and 2, of mean 3/2, gave the center 1.
C15_Witness ==
    /\ LocationReturned
    /\ Len(samples.rows) = 2
    /\ MeanOf("x") = Rat(3, 2)
    /\ location.center[1] = 1

-----------------------------------------------------------------------------
(* Harness of the coordinate transform: the first part of convert_arcade   *)
(* (samples, then the region samples against the same steps and offsets)   *)
(* and make_setup_file on the transformed samples.                         *)

MaxRows == 3
MaxRegionRows == 2

\* Raw x values: negative, zero, off the grid of the others.
TransformXs == {-3, -2, 0, 1, 4}

\* One raw row per x: y on a coarser grid, z constant (a degenerate axis).
RawRow(x) == Row(IF x <= 0 THEN 1 ELSE 2, x, 3 * x + 3, 10, None)

\* The tables of the tests: samples (or reference) and the second table.
TestSamples ==
    Table(FALSE, <<Row(1, 0, 3, 10, None), Row(2, 2, 15, 40, None), Row(3, 6, 6, 20, None),
                   Row(4, 4, 12, 50, None), Row(5, 8, 9, 30, None), Row(6, 10, 18, 60, None)>>)

TestSecond ==
    Table(FALSE, <<Row(7, 4, 21, 30, None), Row(8, 8, 21, 20, None), Row(9, 12, 21, 20, None)>>)

SampleTables ==
    {Table(FALSE, rows) :
        rows \in UNION {[1..n -> {RawRow(x) : x \in TransformXs}] : n \in 1..MaxRows}}
    \cup {TestSamples}

RegionTables ==
    {Table(FALSE, rows) :
        rows \in UNION {[1..n -> {RawRow(x) : x \in {-3, 0, 4}}] : n \in 1..MaxRegionRows}}
    \cup {TestSecond}

Margins == {<<0, 0, 0>>, <<3, 4, 5>>}

InitTransform ==
    /\ pc = "calculate_sample_transform"
    /\ samples_df \in SampleTables
    /\ margins \in Margins
    /\ \/ region = None /\ region_df = None
       \/ region = "NUCLEUS" /\ region_df \in RegionTables
    /\ transform = None
    /\ samples = None
    /\ region_samples = None
    /\ setup = None
    /\ raised = None
    /\ config = None
    /\ reference = None
    /\ criticals = None
    /\ cell = None
    /\ merged = None
    /\ ClassifierIdle
    /\ LocationIdle
    /\ RunIdle
    /\ FlowIdle
    /\ DockerIdle
    /\ LocalIdle

\* steps, offsets, bounds = self.calculate_sample_transform(samples_df, margins)
CalculateSampleTransform ==
    /\ pc = "calculate_sample_transform"
    /\ transform' = calculate_sample_transform(samples_df, margins)
    /\ pc' = "transform_sample_voxels"
    /\ UNCHANGED <<samples_df, region_df, margins, region, samples, region_samples, setup,
                   raised, config, reference, criticals, cell, classifierVars, merged,
                   locationVars, runVars, flowVars, dockerVars, localVars>>

\* samples = self.transform_sample_voxels(samples_df, steps, offsets)
\* (samples_df keeps standing for the table as loaded)
TransformSampleVoxels ==
    /\ pc = "transform_sample_voxels"
    /\ samples' = transform_sample_voxels(samples_df, transform.steps, transform.offsets)
    /\ pc' = IF region = None THEN "make_setup_file" ELSE "transform_region"
    /\ UNCHANGED <<samples_df, region_df, margins, region, transform, region_samples, setup,
                   raised, config, reference, criticals, cell, classifierVars, merged,
                   locationVars, runVars, flowVars, dockerVars, localVars>>

\* if region: region_samples = ...; region_samples["region"] = region
TransformRegionVoxels ==
    /\ pc = "transform_region"
    /\ region_samples' = make_region_samples(region_df, region, transform.steps, transform.offsets)
    /\ pc' = "make_setup_file"
    /\ UNCHANGED <<samples_df, region_df, margins, region, transform, samples, setup,
                   raised, config, reference, criticals, cell, classifierVars, merged,
                   locationVars, runVars, flowVars, dockerVars, localVars>>

\* setup = self.make_setup_file(samples, **bounds)
MakeSetupFile ==
    /\ pc = "make_setup_file"
    /\ setup' = make_setup_file(samples, transform.bounds.length, transform.bounds.width,
                                transform.bounds.height)
    /\ pc' = "transform.done"
    /\ UNCHANGED <<samples_df, region_df, margins, region, transform, samples, region_samples,
                   raised, config, reference, criticals, cell, classifierVars, merged,
                   locationVars, runVars, flowVars, dockerVars, localVars>>

NextTransform ==
    \/ CalculateSampleTransform
    \/ TransformSampleVoxels
    \/ TransformRegionVoxels
    \/ MakeSetupFile

SpecTransform == InitTransform /\ [][NextTransform]_vars

-----------------------------------------------------------------------------
(* Properties of the coordinate transform, checked under SpecTransform.    *)

Axes == {"x", "y", "z"}

SamplesTransformed == pc \in {"transform_region", "make_setup_file", "transform.done"}
RegionTransformed == pc \in {"make_setup_file", "transform.done"} /\ region # None
SetupMade == pc = "transform.done"

MarginOf(axis) == margins[axis_index(axis)]

\* The step, minimum and maximum of an axis of the raw sample table.
StepOf(axis) == get_step_size(samples_df, axis)
MinOf(axis) == column_min(samples_df, axis)
MaxOf(axis) == column_max(samples_df, axis)

\* floor(raw / step) as a rational.
FloorQuotient(raw, step) == RatInt(RatFloor(RatDiv(raw, step)))

\* C7 as stated: for every sample table and margins (no reference table) each
\* transformed coordinate is an integer floor(raw / step) + offset with one
\* offset per axis, and the minimum transformed coordinate of the axis equals
\* margin + 1, also for a negative or off-grid axis minimum.
C7_FloorPlusOffset ==
    SamplesTransformed =>
        \A axis \in Axes :
            /\ \A i \in 1..Len(samples.rows) : RatIsInt(samples.rows[i][axis])
            /\ \A i, j \in 1..Len(samples.rows) :
                RatSub(samples.rows[i][axis], FloorQuotient(samples_df.rows[i][axis], StepOf(axis)))
                    = RatSub(samples.rows[j][axis], FloorQuotient(samples_df.rows[j][axis], StepOf(axis)))
            /\ column_min(samples, axis) = RatInt(MarginOf(axis) + 1)

\* int(raw / step_ref) - min_ref / step_ref + margin + 1
AgainstReference(raw, axis) ==
    RatAdd(RatSub(RatInt(RatTrunc(RatDiv(raw, StepOf(axis)))), RatDiv(MinOf(axis), StepOf(axis))),
           RatInt(MarginOf(axis) + 1))

SameVoxel(r1, r2) == \A axis \in Axes : r1[axis] = r2[axis]

\* C8: the region table is transformed with the step and the offset of the
\* sample table: each coordinate becomes
\* int(raw / step_ref) - min_ref / step_ref + margin + 1; a voxel with the same
\* raw (x, y, z) in both tables gets the same grid coordinates; the id column,
\* the row count and the row order are unchanged.
C8_RegionAgainstSamples ==
    RegionTransformed =>
        /\ Len(region_samples.rows) = Len(region_df.rows)
        /\ \A i \in 1..Len(region_df.rows) :
            /\ region_samples.rows[i].id = region_df.rows[i].id
            /\ \A axis \in Axes :
                region_samples.rows[i][axis] = AgainstReference(region_df.rows[i][axis], axis)
            /\ \A j \in 1..Len(samples_df.rows) :
                SameVoxel(region_df.rows[i], samples_df.rows[j])
                    => SameVoxel(region_samples.rows[i], samples.rows[j])
        /\ (samples_df = TestSamples /\ region_df = TestSecond /\ margins = <<0, 0, 0>>) =>
            region_samples.rows =
                <<Row(7, 3, 7, 3, region), Row(8, 5, 7, 2, region), Row(9, 7, 7, 2, region)>>

\* C8 witness: a region voxel that is also a sample voxel, in a region table
\* whose own minimum and step differ from the sample table's.
C8_Witness ==
    /\ RegionTransformed
    /\ \E i \in 1..Len(region_df.rows) : \E j \in 1..Len(samples_df.rows) :
        SameVoxel(region_df.rows[i], samples_df.rows[j])
    /\ column_min(region_df, "x") # MinOf("x")
    /\ get_step_size(region_df, "x") # StepOf("x")

\* C9 as stated: on every axis bounds = (max - min) / step + 2 * margin + 3,
\* every transformed coordinate c has margin + 1 <= c <= bounds - margin - 2,
\* and the setup's length, width and height are the bounds of x, y and z.
C9_BoundsEncloseSamples ==
    SetupMade =>
        \A k \in 1..Len(coords) :
            LET axis == coords[k]
                bound == transform.bounds[sizes[k]]
            IN  /\ bound = RatAdd(RatDiv(RatSub(MaxOf(axis), MinOf(axis)), StepOf(axis)),
                                  RatInt(2 * margins[k] + 3))
                /\ \A i \in 1..Len(samples.rows) :
                    /\ RatLeq(RatInt(margins[k] + 1), samples.rows[i][axis])
                    /\ RatLeq(samples.rows[i][axis], RatSub(bound, RatInt(margins[k] + 2)))
                /\ RatInt(setup[sizes[k]]) = bound

\* The transform inverted on one transformed coordinate: the offset taken
\* off, then the division by the step undone.
InverseCoordinate(value, axis) ==
    RatMul(RatSub(value, transform.offsets[axis]), transform.steps[axis])

\* Two coordinates less than one step of the axis apart.
WithinOneStep(p, q, axis) ==
    /\ RatLess(RatSub(p, q), transform.steps[axis])
    /\ RatLess(RatSub(q, p), transform.steps[axis])

\* C24: for every sample table and every axis independently, inverting the
\* transform on a transformed coordinate gives a value less than one step
\* from the original raw coordinate; so it is for the region table, which is
\* transformed with the same steps and offsets.
C24_InverseWithinOneStep ==
    /\ SamplesTransformed =>
        \A axis \in Axes : \A i \in 1..Len(samples_df.rows) :
            WithinOneStep(InverseCoordinate(samples.rows[i][axis], axis),
                          samples_df.rows[i][axis], axis)
    /\ RegionTransformed =>
        \A axis \in Axes : \A i \in 1..Len(region_df.rows) :
            WithinOneStep(InverseCoordinate(region_samples.rows[i][axis], axis),
                          region_df.rows[i][axis], axis)

\* C24 witness: on an axis of step other than 1 a raw coordinate off the grid
\* came back from the inverse changed, and a negative one too.
C24_Witness ==
    /\ SamplesTransformed
    /\ transform.steps.x # RatInt(1)
    /\ \E i \in 1..Len(samples_df.rows) :
        /\ RatLess(RatInt(0), samples_df.rows[i].x)
        /\ InverseCoordinate(samples.rows[i].x, "x") # samples_df.rows[i].x
    /\ \E i \in 1..Len(samples_df.rows) :
        /\ RatLess(samples_df.rows[i].x, RatInt(0))
        /\ InverseCoordinate(samples.rows[i].x, "x") # samples_df.rows[i].x

-----------------------------------------------------------------------------
(* Harness of filter_valid_samples: the static method on one table.        *)

MaxFilterRows == 4

FilterIds == {1, 2, 3}

\* The i-th row of a table: x holds the position, so every row is distinct.
FilterRow(i, id, reg) == Row(id, i, 0, 0, reg)

FilterTablesOf(region_col) ==
    {Table(region_col, [i \in 1..n |-> FilterRow(i, ids[i], regs[i])]) :
        <<n, ids, regs>> \in
            UNION {{n} \X [1..n -> FilterIds]
                       \X [1..n -> IF region_col
                                   THEN {"DEFAULT", "NUCLEUS", "REGION"}
                                   ELSE {None}] : n \in 1..MaxFilterRows}}

\* The table of test_filter_valid_samples_with_regions, REGION_A, REGION_B and
\* REGION_C standing as DEFAULT, NUCLEUS and REGION.
TestRegionTagged ==
    Table(TRUE, <<Row(1, 1, 2, 3, "DEFAULT"), Row(1, 4, 5, 6, "NUCLEUS"), Row(1, 7, 8, 9, "REGION"),
                  Row(2, 10, 11, 12, "REGION"), Row(2, 13, 14, 15, "NUCLEUS"),
                  Row(3, 16, 17, 18, "DEFAULT"), Row(3, 19, 20, 21, "NUCLEUS"),
                  Row(3, 22, 23, 24, "REGION")>>)

FilterTables == FilterTablesOf(TRUE) \cup FilterTablesOf(FALSE) \cup {TestRegionTagged}

InitFilter ==
    /\ pc = "filter_valid_samples"
    /\ merged \in FilterTables
    /\ samples = None
    /\ raised = None
    /\ config = None
    /\ reference = None
    /\ region = None
    /\ criticals = None
    /\ cell = None
    /\ ClassifierIdle
    /\ TransformIdle
    /\ LocationIdle
    /\ RunIdle
    /\ FlowIdle
    /\ DockerIdle
    /\ LocalIdle

\* samples = self.filter_valid_samples(samples)
CallFilterValidSamples ==
    /\ pc = "filter_valid_samples"
    /\ samples' = filter_valid_samples(merged)
    /\ pc' = "filter_valid_samples.return"
    /\ UNCHANGED <<merged, raised, config, reference, region, criticals, cell, classifierVars,
                   transformVars,
                   locationVars, runVars, flowVars, dockerVars, localVars>>

NextFilter == CallFilterValidSamples

SpecFilter == InitFilter /\ [][NextFilter]_vars

-----------------------------------------------------------------------------
(* Properties of filter_valid_samples, checked under SpecFilter.           *)

Filtered == pc = "filter_valid_samples.return"

\* The distinct regions of a cell id in the table before the filter.
RegionSet(id) == {merged.rows[i].region : i \in {j \in 1..Len(merged.rows) : merged.rows[j].id = id}}

\* The positions in the table before the filter of the rows that must stay.
Staying == {i \in 1..Len(merged.rows) : Cardinality(RegionSet(merged.rows[i].id)) > 1}

C23_FilterIdempotent ==
    Filtered =>
        /\ filter_valid_samples(samples) = samples
        /\ filter_valid_samples(samples).rows = samples.rows

\* C23 witness: the filter removed a cell from a region-tagged table and kept
\* another, and leaves its output as it is.
C23_Witness ==
    /\ Filtered
    /\ merged.region_col
    /\ Len(samples.rows) > 0
    /\ Len(samples.rows) < Len(merged.rows)
    /\ filter_valid_samples(samples).rows = samples.rows

\* The regions occurring in the table before the filter.
TableRegions == {merged.rows[i].region : i \in 1..Len(merged.rows)}

\* C11 as stated: after filter_valid_samples on a region-tagged table every
\* remaining cell has all the regions occurring in the table; a cell lacking one
\* of them is removed even if it has two or more distinct regions, and the
\* cells with all of two or more regions are kept.
C11_EveryCellHasAllRegions ==
    (Filtered /\ merged.region_col) =>
        /\ \A k \in 1..Len(samples.rows) : RegionSet(samples.rows[k].id) = TableRegions
        /\ \A i \in 1..Len(merged.rows) :
            (RegionSet(merged.rows[i].id) = TableRegions /\ Cardinality(TableRegions) > 1) =>
                \E k \in 1..Len(samples.rows) : samples.rows[k] = merged.rows[i]
        /\ merged = TestRegionTagged =>
            {samples.rows[k].id : k \in 1..Len(samples.rows)} = {1, 3}

-----------------------------------------------------------------------------
(* ConvertARCADE.run: the conversion of every key of the context, one call *)
(* of convert_arcade per key, in the order of context.keys.                *)

MaxKeys == 2

KeyNames == <<"K1", "K2", "K3">>

KeySet == {KeyNames[n] : n \in 1..MaxKeys}

\* context.keys: every list of distinct keys.
KeySequences ==
    {seq \in UNION {[1..n -> KeySet] : n \in 0..MaxKeys} :
        \A a, b \in 1..Len(seq) : a # b => seq[a] # seq[b]}

\* The processed samples of a key and its processed region samples.
\* Three cells with the ids 7, 3, 5 in this order of first appearance, on a
\* grid of steps 2, 3, 1; the region holds a voxel of cell 7 and one of cell 3.
ConditionA ==
    [samples |-> Table(FALSE, <<Row(7, 0, 0, 0, None), Row(3, 4, 0, 0, None), Row(7, 2, 0, 0, None),
                                Row(5, 6, 3, 1, None), Row(3, 4, 3, 0, None), Row(7, 2, 0, 1, None)>>),
     region |-> Table(FALSE, <<Row(7, 2, 0, 0, None), Row(3, 4, 3, 0, None), Row(9, 8, 6, 1, None)>>)]

\* Two cells, a negative x minimum off the grid of step 2, a constant z.
ConditionB ==
    [samples |-> Table(FALSE, <<Row(2, -3, 0, 5, None), Row(1, 3, 0, 5, None), Row(2, 1, 0, 5, None),
                                Row(1, 1, 1, 5, None)>>),
     region |-> Table(FALSE, <<Row(2, 1, 0, 5, None), Row(1, 3, 0, 5, None)>>)]

\* One cell of one voxel; no region voxel is a voxel of the cell.
ConditionC ==
    [samples |-> Table(FALSE, <<Row(4, 5, 5, 5, None)>>),
     region |-> Table(FALSE, <<Row(4, 6, 5, 5, None)>>)]

Conditions == {ConditionA, ConditionB, ConditionC}

\* A row of the reference: key, id and the measurements of the cell.
ReferenceRow(key_name, id, vol, height, nucleus_vol, nucleus_height) ==
    (<<"key">> :> key_name) @@ (<<"id">> :> id)
        @@ (<<"volume">> :> RatInt(vol)) @@ (<<"height">> :> RatInt(height))
        @@ (<<"volume", "NUCLEUS">> :> RatInt(nucleus_vol))
        @@ (<<"height", "NUCLEUS">> :> RatInt(nucleus_height))

\* The reference file: at most one row per key and id.
ReferenceFile ==
    <<ReferenceRow("K1", 7, 1500, 20, 500, 5), ReferenceRow("K2", 3, 900, 8, 300, 4),
      ReferenceRow("K1", 4, 2000, 10, 600, 6)>>

ReferencePath == "reference.csv"

\* The statistics of the flow without the entry of NUCLEUS in the last mapping
\* get_cell_criticals reads.
ConfigPartial == [ConfigFlow EXCEPT !.CRITICAL_HEIGHT_SIGMA = [DEFAULT |-> Centi(200)]]

RunConfigs == {ConfigFlow, ConfigPartial}

RunRegions == {None, "NUCLEUS", "REGION"}

WorkingLocations == {[files |-> f, reference |-> ReferenceFile] : f \in [KeySet -> Conditions]}

\* No file saved: by kind, the saved content of each key.
NothingSaved == [cells |-> <<>>, locations |-> <<>>, setup |-> <<>>]

Init ==
    /\ pc = "run"
    /\ config \in RunConfigs
    /\ margins \in Margins
    /\ region \in RunRegions
    /\ run_reference \in {None, ReferencePath}
    /\ working \in WorkingLocations
    /\ context_keys \in KeySequences
    /\ saved = NothingSaved
    /\ key = None
    /\ key_reference = None
    /\ cells = None
    /\ locations = None
    /\ loop_i = None
    /\ samples_df = None
    /\ region_df = None
    /\ transform = None
    /\ samples = None
    /\ region_samples = None
    /\ merged = None
    /\ setup = None
    /\ reference = None
    /\ raised = None
    /\ criticals = None
    /\ cell = None
    /\ ClassifierIdle
    /\ LocationIdle
    /\ FlowIdle
    /\ DockerIdle
    /\ LocalIdle

runInputs == <<config, margins, region, working>>
notOfRun == <<classifierVars, criticals, cell, locationVars, flowVars, dockerVars, localVars>>

\* run: if reference: reference = load_dataframe(...) else: an empty reference
Run ==
    /\ pc = "run"
    /\ run_reference' = IF run_reference # None THEN working.reference ELSE <<>>
    /\ pc' = "run.for"
    /\ UNCHANGED <<runInputs, notOfRun, saved, context_keys, key, key_reference, cells, locations,
                   loop_i, samples_df, region_df, transform, samples, region_samples, merged,
                   setup, reference, raised>>

\* run: for key in self.context.keys: key_reference = reference[reference.key == key]
RunFor ==
    /\ pc = "run.for"
    /\ context_keys # <<>>
    /\ key' = Head(context_keys)
    /\ context_keys' = Tail(context_keys)
    /\ key_reference' = select_key_reference(run_reference, Head(context_keys))
    /\ pc' = "convert_arcade"
    /\ UNCHANGED <<runInputs, notOfRun, saved, run_reference, cells, locations,
                   loop_i, samples_df, region_df, transform, samples, region_samples, merged,
                   setup, reference, raised>>

\* run: the loop over context.keys is exhausted
RunReturn ==
    /\ pc = "run.for"
    /\ context_keys = <<>>
    /\ pc' = "run.return"
    /\ UNCHANGED <<runInputs, notOfRun, saved, context_keys, key, run_reference, key_reference,
                   cells, locations, loop_i, samples_df, region_df, transform, samples,
                   region_samples, merged, setup, reference, raised>>

\* convert_arcade: load the samples and calculate the transform
ConvertLoad ==
    /\ pc = "convert_arcade"
    /\ samples_df' = working.files[key].samples
    /\ transform' = calculate_sample_transform(working.files[key].samples, margins)
    /\ pc' = "convert_arcade.transform"
    /\ UNCHANGED <<runInputs, notOfRun, saved, context_keys, key, run_reference, key_reference,
                   cells, locations, loop_i, region_df, samples, region_samples, merged,
                   setup, reference, raised>>

\* convert_arcade: samples = self.transform_sample_voxels(samples_df, steps, offsets)
ConvertTransform ==
    /\ pc = "convert_arcade.transform"
    /\ samples' = transform_sample_voxels(samples_df, transform.steps, transform.offsets)
    /\ pc' = IF region = None THEN "convert_arcade.filter" ELSE "convert_arcade.region"
    /\ UNCHANGED <<runInputs, notOfRun, saved, context_keys, key, run_reference, key_reference,
                   cells, locations, loop_i, samples_df, region_df, transform, region_samples,
                   merged, setup, reference, raised>>

\* convert_arcade: if region: load and transform the region samples, merge
\* them into the samples
ConvertRegion ==
    /\ pc = "convert_arcade.region"
    /\ region_df' = working.files[key].region
    /\ region_samples' = make_region_samples(working.files[key].region, region,
                                             transform.steps, transform.offsets)
    /\ samples' = merge_region_samples(samples, region_samples')
    /\ pc' = "convert_arcade.filter"
    /\ UNCHANGED <<runInputs, notOfRun, saved, context_keys, key, run_reference, key_reference,
                   cells, locations, loop_i, samples_df, transform, merged, setup, reference,
                   raised>>

\* convert_arcade: filter the samples, initialize the outputs, group by id
ConvertFilter ==
    /\ pc = "convert_arcade.filter"
    /\ merged' = samples
    /\ samples' = filter_valid_samples(samples)
    /\ cells' = <<>>
    /\ locations' = <<>>
    /\ loop_i' = 0
    /\ pc' = "convert_arcade.for"
    /\ UNCHANGED <<runInputs, notOfRun, saved, context_keys, key, run_reference, key_reference,
                   samples_df, region_df, transform, region_samples, setup, reference, raised>>

\* convert_arcade: one iteration of for i, (sample_id, group) in enumerate(samples_by_id);
\* a KeyError of convert_to_cell leaves convert_arcade and run.
ConvertCell ==
    /\ pc = "convert_arcade.for"
    /\ loop_i < Len(groupby_id_keys(samples))
    /\ LET sample_id == groupby_id_keys(samples)[loop_i + 1]
           group == id_group(samples, sample_id)
           sample_reference == cell_reference(key_reference, sample_id)
       IN  /\ reference' = sample_reference
           /\ IF convert_to_cell_raises(group)
              THEN /\ raised' = KeyError
                   /\ pc' = "run.raised"
                   /\ UNCHANGED <<cells, locations, loop_i>>
              ELSE /\ cells' = Append(cells, convert_to_cell(output_id(loop_i, sample_id), group,
                                                             sample_reference))
                   /\ locations' = Append(locations,
                                          convert_to_location(output_id(loop_i, sample_id), group))
                   /\ loop_i' = loop_i + 1
                   /\ UNCHANGED <<pc, raised>>
    /\ UNCHANGED <<runInputs, notOfRun, saved, context_keys, key, run_reference, key_reference,
                   samples_df, region_df, transform, samples, region_samples, merged, setup>>

\* convert_arcade: save_json(self.context.working, cells_key, cells)
ConvertSaveCells ==
    /\ pc = "convert_arcade.for"
    /\ loop_i = Len(groupby_id_keys(samples))
    /\ saved' = [saved EXCEPT !.cells = (key :> cells) @@ @]
    /\ pc' = "convert_arcade.save_locations"
    /\ UNCHANGED <<runInputs, notOfRun, context_keys, key, run_reference, key_reference, cells,
                   locations, loop_i, samples_df, region_df, transform, samples, region_samples,
                   merged, setup, reference, raised>>

\* convert_arcade: save_json(self.context.working, locations_key, locations)
ConvertSaveLocations ==
    /\ pc = "convert_arcade.save_locations"
    /\ saved' = [saved EXCEPT !.locations = (key :> locations) @@ @]
    /\ pc' = "convert_arcade.setup"
    /\ UNCHANGED <<runInputs, notOfRun, context_keys, key, run_reference, key_reference, cells,
                   locations, loop_i, samples_df, region_df, transform, samples, region_samples,
                   merged, setup, reference, raised>>

\* convert_arcade: setup = self.make_setup_file(samples, **bounds); save_buffer(...)
ConvertSetup ==
    /\ pc = "convert_arcade.setup"
    /\ setup' = make_setup_file(samples, transform.bounds.length, transform.bounds.width,
                                transform.bounds.height)
    /\ saved' = [saved EXCEPT !.setup = (key :> setup') @@ @]
    /\ pc' = "run.for"
    /\ UNCHANGED <<runInputs, notOfRun, context_keys, key, run_reference, key_reference, cells,
                   locations, loop_i, samples_df, region_df, transform, samples, region_samples,
                   merged, reference, raised>>

Next ==
    \/ Run
    \/ RunFor
    \/ RunReturn
    \/ ConvertLoad
    \/ ConvertTransform
    \/ ConvertRegion
    \/ ConvertFilter
    \/ ConvertCell
    \/ ConvertSaveCells
    \/ ConvertSaveLocations
    \/ ConvertSetup

Spec == Init /\ [][Next]_vars

-----------------------------------------------------------------------------
(* Properties of the conversion of a key, checked under Spec.              *)

\* The records of the key being converted are being built or are all built.
Building == pc = "convert_arcade.for"
Built ==
    \/ pc \in {"convert_arcade.save_locations", "convert_arcade.setup"}
    \/ Building /\ loop_i = Len(groupby_id_keys(samples))

\* The distinct ids of the filtered table.
FilteredIds == {samples.rows[p].id : p \in 1..Len(samples.rows)}

\* The rows of one id of the filtered table, in the table's order.
RowsOfId(id) == Table(samples.region_col, SelectSeq(samples.rows, LAMBDA row : row.id = id))

\* The one-to-one assignments of the output ids 1..N to the ids of the filtered table.
Renumberings ==
    {f \in [1..Cardinality(FilteredIds) -> FilteredIds] :
        \A a, b \in 1..Cardinality(FilteredIds) : a # b => f[a] # f[b]}

\* C12: the emitted cell records carry the ids 1..N without gaps or repeats,
\* N the number of distinct cell ids of the filtered table, whatever the
\* original sample ids; the k-th cell record and the k-th location record
\* carry the id k and are built from the rows of the same cell, and no two
\* records from the same cell.
C12_DenseIds ==
    (Building \/ Built) =>
        /\ Len(cells) = Len(locations)
        /\ Len(cells) <= Cardinality(FilteredIds)
        /\ Built => Len(cells) = Cardinality(FilteredIds)
        /\ \E f \in Renumberings :
            \A k \in 1..Len(cells) :
                /\ cells[k].id = k
                /\ locations[k].id = k
                /\ cells[k] = convert_to_cell(k, RowsOfId(f[k]), cell_reference(key_reference, f[k]))
                /\ locations[k] = convert_to_location(k, RowsOfId(f[k]))
        /\ (pc = "convert_arcade.save_locations" \/ pc = "convert_arcade.setup") =>
            saved.cells[key] = cells
        /\ pc = "convert_arcade.setup" => saved.locations[key] = locations

\* C12 witness: the cells with the ids 3, 5 and 7 were emitted with the ids 1, 2, 3.
C12_Witness ==
    /\ pc = "convert_arcade.setup"
    /\ FilteredIds = {3, 5, 7}
    /\ Len(saved.cells[key]) = 3
    /\ \A k \in 1..3 : saved.cells[key][k].id = k /\ saved.locations[key][k].id = k

\* The distinct original ids of the filtered table in the order in which they
\* are first met when reading the table from its first row to its last.
FirstSeenIds == unique([p \in 1..Len(samples.rows) |-> samples.rows[p].id])

\* C25 as stated: renumbered ids are assigned in first-seen order: the cell
\* that receives the output id k is the k-th distinct original id met when
\* reading the filtered table from its first row to its last, also when the
\* original ids do not appear in ascending order.
C25_FirstSeenOrder ==
    (Building \/ Built) =>
        \A k \in 1..Len(cells) :
            /\ cells[k] = convert_to_cell(k, RowsOfId(FirstSeenIds[k]),
                                          cell_reference(key_reference, FirstSeenIds[k]))
            /\ locations[k] = convert_to_location(k, RowsOfId(FirstSeenIds[k]))

\* The number of voxels over all the buckets of a location list.
RECURSIVE TotalVoxels(_)
TotalVoxels(buckets) ==
    IF buckets = <<>> THEN 0 ELSE Len(Head(buckets).voxels) + TotalVoxels(Tail(buckets))

\* The sum of the voxels of the region sub-records of a cell record.
RECURSIVE TotalRegionVoxels(_)
TotalRegionVoxels(sub_records) ==
    IF sub_records = <<>> THEN 0 ELSE Head(sub_records).voxels + TotalRegionVoxels(Tail(sub_records))

\* C26: for every cell emitted by convert_arcade the cell record and the
\* location record with the same id agree: the cell's voxels is the total
\* number of voxels over the location's buckets, and when regions exist the
\* region sub-records and the buckets list the same regions in the same
\* order, each sub-record's voxels being the length of that region's bucket,
\* so that the region counts sum to the cell's voxels.
C26_CellAgreesWithLocation ==
    (Building \/ Built) =>
        \A a \in 1..Len(cells) : \A b \in 1..Len(locations) :
            cells[a].id = locations[b].id =>
                LET buckets == locations[b].location
                IN  /\ cells[a].voxels = TotalVoxels(buckets)
                    /\ IF samples.region_col
                       THEN /\ Len(cells[a].regions) = Len(buckets)
                            /\ \A j \in 1..Len(buckets) :
                                /\ cells[a].regions[j].region = buckets[j].region
                                /\ cells[a].regions[j].voxels = Len(buckets[j].voxels)
                            /\ TotalRegionVoxels(cells[a].regions) = cells[a].voxels
                       ELSE /\ "regions" \notin DOMAIN cells[a]
                            /\ Len(buckets) = 1

\* C26 witness: a key converted with a region and a reference, a saved cell
\* of three voxels in two regions with its location record.
C26_Witness ==
    /\ Built
    /\ samples.region_col
    /\ key_reference # <<>>
    /\ \E a \in 1..Len(cells) :
        /\ cells[a].voxels = 3
        /\ Len(cells[a].regions) = 2
        /\ locations[a].id = cells[a].id
        /\ Len(locations[a].location) = 2

\* The three files of the key converted last are saved.
KeySaved == pc \in {"run.for", "run.return"} /\ key \in DOMAIN saved.setup

\* C16: the setup has a single population whose init is the number of distinct
\* cell ids of the transformed and filtered table, which is the number of cell
\* records and of location records saved for the key; when the table has a
\* region column the population has exactly one region element per distinct
\* region name, each with the fraction 0.5, and it has none otherwise.
C16_SetupPopulation ==
    KeySaved =>
        LET populations == saved.setup[key].populations
        IN  /\ Len(populations) = 1
            /\ populations[1].init = Cardinality(FilteredIds)
            /\ populations[1].init = Len(saved.cells[key])
            /\ populations[1].init = Len(saved.locations[key])
            /\ IF samples.region_col
               THEN /\ Len(populations[1].regions) = Cardinality(RegionsOf(samples))
                    /\ \A r \in RegionsOf(samples) :
                        \E j \in 1..Len(populations[1].regions) : populations[1].regions[j].id = r
                    /\ \A j \in 1..Len(populations[1].regions) :
                        populations[1].regions[j].fraction = "0.5"
               ELSE populations[1].regions = <<>>

\* C16 witness: a key converted with a region, two cells of several voxels each
\* in two regions.
C16_Witness ==
    /\ KeySaved
    /\ samples.region_col
    /\ Len(samples.rows) > 2
    /\ saved.setup[key].populations[1].init = 2
    /\ Len(saved.setup[key].populations[1].regions) = 2

\* The next group of the loop, for which critical values are computed next.
NextGroup == RowsOfId(groupby_id_keys(samples)[loop_i + 1])

\* The region keys critical values are computed for on a group: DEFAULT for
\* the cell and, with a region column, each region of the group.
RegionKeysOf(group) ==
    {"DEFAULT"} \cup (IF group.region_col THEN RegionsOf(group) ELSE {})

\* A region key of the group is absent from one of the statistic mappings.
MissingStatistic(group) ==
    \E r \in RegionKeysOf(group) : \E name \in DOMAIN config : r \notin DOMAIN config[name]

NoArtifactOf(key_name) ==
    /\ key_name \notin DOMAIN saved.cells
    /\ key_name \notin DOMAIN saved.locations
    /\ key_name \notin DOMAIN saved.setup

\* C17: computing the critical values of a cell for a region key that is
\* absent from any of the statistic mappings raises an error (and only that
\* does) and builds no record; when the error is raised no artifact of the key
\* is written; after the error nothing more happens: no retry, no later key.
C17_MissingStatisticFails ==
    /\ [](raised = KeyError => NoArtifactOf(key))
    /\ [][/\ raised # KeyError
          /\ (Building /\ loop_i < Len(groupby_id_keys(samples))) =>
                /\ (raised' = KeyError) <=> MissingStatistic(NextGroup)
                /\ MissingStatistic(NextGroup) =>
                    /\ saved' = saved
                    /\ cells' = cells
                    /\ locations' = locations]_vars

\* C17 witness: NUCLEUS is absent from one mapping only; the error was raised
\* on the second key, after the files of the first key were saved.
C17_Witness ==
    /\ raised = KeyError
    /\ region = "NUCLEUS"
    /\ config = ConfigPartial
    /\ NoArtifactOf(key)
    /\ DOMAIN saved.setup # {}

\* The reference rows of a key: none when run is given no reference.
KeyRows(key_name) ==
    IF run_reference = <<>> THEN <<>>
    ELSE SelectSeq(working.reference, LAMBDA r : r[<<"key">>] = key_name)

\* The transformed, merged and filtered table of a key, from the files of
\* the key, the margins and the region alone.
FilteredOf(key_name) ==
    LET files == working.files[key_name]
        t == calculate_sample_transform(files.samples, margins)
        transformed == transform_sample_voxels(files.samples, t.steps, t.offsets)
    IN  filter_valid_samples(
            IF region = None THEN transformed
            ELSE merge_region_samples(
                    transformed, make_region_samples(files.region, region, t.steps, t.offsets)))

\* The three artifacts of a key, from its files, its reference rows, the
\* margins and the region alone.
CellsOf(key_name) ==
    LET table == FilteredOf(key_name)
        ids == groupby_id_keys(table)
    IN  [n \in 1..Len(ids) |->
            convert_to_cell(n, id_group(table, ids[n]), cell_reference(KeyRows(key_name), ids[n]))]

LocationsOf(key_name) ==
    LET table == FilteredOf(key_name)
        ids == groupby_id_keys(table)
    IN  [n \in 1..Len(ids) |-> convert_to_location(n, id_group(table, ids[n]))]

SetupOf(key_name) ==
    LET t == calculate_sample_transform(working.files[key_name].samples, margins)
    IN  make_setup_file(FilteredOf(key_name), t.bounds.length, t.bounds.width, t.bounds.height)

\* A step keeps the saved files of the kind of every key but the one being
\* converted.
KeepsSaved(kind) ==
    \A k \in DOMAIN saved[kind] :
        k # key => (k \in DOMAIN saved'[kind] /\ saved'[kind][k] = saved[kind][k])

-----------------------------------------------------------------------------
(* run_flow_convert_to_arcade of flows/initialize_arcade_simulations.py.    *)
(* The functions of arcade_collection it calls are not interpreted: the    *)
(* value of a call is the record of the function's name and its arguments. *)

VOLUMES ==
    [DEFAULT |-> <<RatInt(1865), RatInt(517)>>, NUCLEUS |-> <<RatInt(543), RatInt(157)>>]

HEIGHTS ==
    [DEFAULT |-> <<Centi(975), Centi(240)>>, NUCLEUS |-> <<Centi(686), Centi(170)>>]

CRITICAL_VOLUMES ==
    [DEFAULT |-> <<RatInt(1300), RatInt(200)>>, NUCLEUS |-> <<RatInt(400), RatInt(50)>>]

CRITICAL_HEIGHTS ==
    [DEFAULT |-> <<Centi(900), Centi(200)>>, NUCLEUS |-> <<Centi(650), Centi(150)>>]

STATE_THRESHOLDS ==
    [APOPTOTIC_LATE |-> Milli(250), APOPTOTIC_EARLY |-> Milli(900),
     PROLIFERATIVE_G1 |-> Milli(1124), PROLIFERATIVE_S |-> Milli(1726),
     PROLIFERATIVE_G2 |-> Milli(1969), PROLIFERATIVE_M |-> RatInt(2)]

\* resolution**3
cube(q) == RatMul(q, RatMul(q, q))

\* round(q): to the nearest integer, a tie to the even one.
py_round(q) ==
    LET low == RatFloor(q)
        rest == RatSub(q, RatInt(low))
    IN  IF RatLess(rest, Rat(1, 2)) THEN low
        ELSE IF RatLess(Rat(1, 2), rest) THEN low + 1
        ELSE IF low % 2 = 0 THEN low ELSE low + 1

\* f"R{round(resolution * 10):03d}", kept as the integer.
make_resolution_key(resolution) == py_round(RatMul(resolution, RatInt(10)))

\* {region: (values[0] / divisor, values[1] / divisor) for region, values in stats.items()}
scale_statistics(stats, divisor) ==
    [r \in DOMAIN stats |-> <<RatDiv(stats[r][1], divisor), RatDiv(stats[r][2], divisor)>>]

\* The columns with "volume" in the name divided by resolution**3, the columns
\* with "height" in the name divided by resolution.
scale_reference(reference_table, resolution) ==
    [n \in 1..Len(reference_table) |->
        [column \in DOMAIN reference_table[n] |->
            IF column[1] = "volume" THEN RatDiv(reference_table[n][column], cube(resolution))
            ELSE IF column[1] = "height" THEN RatDiv(reference_table[n][column], resolution)
            ELSE reference_table[n][column]]]

\* reference[reference["KEY"] == fov["key"]]
select_fov_reference(reference_table, fov_key) ==
    SelectSeq(reference_table, LAMBDA r : r[<<"KEY">>] = fov_key)

\* fov["margins"] if "margins" in fov else parameters.convert_to_arcade.margins
fov_margins(condition, default) ==
    IF "margins" \in DOMAIN condition THEN condition.margins ELSE default

\* f"{series.name}_{fov['key']}_X{x:03d}_Y{y:03d}_Z{z:03d}_{resolution_key}"
make_fov_key(condition, margin, resolution) ==
    <<condition.key, margin[1], margin[2], margin[3], make_resolution_key(resolution)>>

\* The samples loaded for each region of parameters.convert_to_arcade.regions:
\* the data frame of the file named by the region key and the resolution key.
load_region_samples(regions, condition, resolution) ==
    [n \in 1..Len(regions) |->
        [region |-> regions[n][1],
         file |-> <<regions[n][2], condition.key, make_resolution_key(resolution)>>]]

-----------------------------------------------------------------------------
(* The flow run on a series of conditions.                                 *)

MaxConditions == 2

\* The conditions of a series: a key and, for some, margins of their own.
Fovs ==
    {[key |-> k] : k \in {"K1", "K2"}} \cup {[key |-> k, margins |-> <<3, 4, 5>>] : k \in {"K1", "K2"}}

FovSequences == UNION {[1..n -> Fovs] : n \in 0..MaxConditions}

\* A row of the reference of the flow.
FlowReferenceRow(key_name, id, vol, height) ==
    (<<"KEY">> :> key_name) @@ (<<"ID">> :> id)
        @@ (<<"volume">> :> RatInt(vol)) @@ (<<"height">> :> RatInt(height))

FlowReferenceFile ==
    <<FlowReferenceRow("K1", 7, 1500, 20), FlowReferenceRow("K2", 3, 900, 8)>>

\* parameters.resolution and parameters.convert_to_arcade.regions, margins.
FlowParameters ==
    {[resolution |-> res, regions |-> regs, margins |-> <<0, 0, 0>>] :
        res \in {RatInt(1), Rat(1, 2)},
        regs \in {<<<<"DEFAULT", "%s">>>>, <<<<"DEFAULT", "%s">>, <<"NUCLEUS", "%s_NUCLEUS">>>>}}

\* The reference location: whether check_key finds the reference key, and the
\* reference it holds then.
ReferenceLocations ==
    {[reference_exists |-> b, reference |-> FlowReferenceFile] : b \in BOOLEAN}

TypeError == "TypeError"

InitFlow ==
    /\ pc = "run_flow_convert_to_arcade"
    /\ parameters \in FlowParameters
    /\ conditions \in FovSequences
    /\ working \in ReferenceLocations
    /\ fov = None
    /\ saved = NothingSaved
    /\ context_keys = None
    /\ key = None
    /\ run_reference = None
    /\ key_reference = None
    /\ cells = None
    /\ locations = None
    /\ loop_i = None
    /\ raised = None
    /\ merged = None
    /\ config = None
    /\ samples = None
    /\ reference = None
    /\ region = None
    /\ criticals = None
    /\ cell = None
    /\ ClassifierIdle
    /\ TransformIdle
    /\ LocationIdle
    /\ DockerIdle
    /\ LocalIdle

notOfFlow ==
    <<classifierVars, locationVars, samples, reference, region, criticals, cell, samples_df,
      region_df, transform, region_samples, context_keys, key_reference, loop_i, working,
      parameters, dockerVars, localVars>>

\* Lines 227-260: the reference, None when check_key fails, and the statistics
\* in voxel units.
FlowLoadReference ==
    /\ pc = "run_flow_convert_to_arcade"
    /\ run_reference' = IF working.reference_exists
                        THEN scale_reference(working.reference, parameters.resolution)
                        ELSE None
    /\ config' = [volumes |-> scale_statistics(VOLUMES, cube(parameters.resolution)),
                  heights |-> scale_statistics(HEIGHTS, parameters.resolution),
                  critical_volumes |-> scale_statistics(CRITICAL_VOLUMES, cube(parameters.resolution)),
                  critical_heights |-> scale_statistics(CRITICAL_HEIGHTS, parameters.resolution)]
    /\ pc' = "flow.for"
    /\ UNCHANGED <<notOfFlow, conditions, fov, saved, key, cells, locations, raised, merged,
                   margins, setup>>

\* Lines 262-275: the next condition, its samples by region merged, its key.
FlowCondition ==
    /\ pc = "flow.for"
    /\ conditions # <<>>
    /\ fov' = Head(conditions)
    /\ conditions' = Tail(conditions)
    /\ margins' = fov_margins(Head(conditions), parameters.margins)
    /\ merged' = [function |-> "merge_region_samples",
                  samples |-> load_region_samples(parameters.regions, Head(conditions),
                                                  parameters.resolution),
                  margins |-> margins']
    /\ key' = make_fov_key(Head(conditions), margins', parameters.resolution)
    /\ pc' = "flow.cells"
    /\ UNCHANGED <<notOfFlow, saved, run_reference, config, cells, locations, raised, setup>>

\* The loop over series.conditions is exhausted.
FlowReturn ==
    /\ pc = "flow.for"
    /\ conditions = <<>>
    /\ pc' = "flow.return"
    /\ UNCHANGED <<notOfFlow, conditions, fov, saved, key, run_reference, config, cells,
                   locations, raised, merged, margins, setup>>

\* Lines 277-285: cells = convert_to_cells_file(merged_samples,
\* reference[reference["KEY"] == fov["key"]], ...); subscripting the reference
\* that is None raises TypeError.
FlowConvertCells ==
    /\ pc = "flow.cells"
    /\ IF ~working.reference_exists
       THEN /\ raised' = TypeError
            /\ pc' = "flow.raised"
            /\ UNCHANGED cells
       ELSE /\ cells' = [function |-> "convert_to_cells_file",
                         samples |-> merged,
                         reference |-> select_fov_reference(run_reference, fov.key),
                         volumes |-> config.volumes,
                         heights |-> config.heights,
                         critical_volumes |-> config.critical_volumes,
                         critical_heights |-> config.critical_heights,
                         state_thresholds |-> STATE_THRESHOLDS]
            /\ pc' = "flow.save_cells"
            /\ UNCHANGED raised
    /\ UNCHANGED <<notOfFlow, conditions, fov, saved, key, run_reference, config, locations,
                   merged, margins, setup>>

\* Lines 286-287: save_json(context.working_location, cells_key, cells)
FlowSaveCells ==
    /\ pc = "flow.save_cells"
    /\ saved' = [saved EXCEPT !.cells = (key :> cells) @@ @]
    /\ pc' = "flow.locations"
    /\ UNCHANGED <<notOfFlow, conditions, fov, key, run_reference, config, cells, locations,
                   raised, merged, margins, setup>>

\* Line 289: locations = convert_to_locations_file(merged_samples)
FlowConvertLocations ==
    /\ pc = "flow.locations"
    /\ locations' = [function |-> "convert_to_locations_file", samples |-> merged]
    /\ pc' = "flow.save_locations"
    /\ UNCHANGED <<notOfFlow, conditions, fov, saved, key, run_reference, config, cells, raised,
                   merged, margins, setup>>

\* Lines 290-291: save_json(context.working_location, locations_key, locations)
FlowSaveLocations ==
    /\ pc = "flow.save_locations"
    /\ saved' = [saved EXCEPT !.locations = (key :> locations) @@ @]
    /\ pc' = "flow.setup"
    /\ UNCHANGED <<notOfFlow, conditions, fov, key, run_reference, config, cells, locations,
                   raised, merged, margins, setup>>

\* Lines 293-297: setup = generate_setup_file(...); save_text(...)
FlowSetup ==
    /\ pc = "flow.setup"
    /\ setup' = [function |-> "generate_setup_file", samples |-> merged, margins |-> margins,
                 terms |-> POTTS_TERMS]
    /\ saved' = [saved EXCEPT !.setup = (key :> setup') @@ @]
    /\ pc' = "flow.for"
    /\ UNCHANGED <<notOfFlow, conditions, fov, key, run_reference, config, cells, locations,
                   raised, merged, margins>>

NextFlow ==
    \/ FlowLoadReference
    \/ FlowCondition
    \/ FlowReturn
    \/ FlowConvertCells
    \/ FlowSaveCells
    \/ FlowConvertLocations
    \/ FlowSaveLocations
    \/ FlowSetup

SpecFlow == InitFlow /\ [][NextFlow]_vars

-----------------------------------------------------------------------------
(* Properties of the flow, checked under SpecFlow.                         *)

\* The cell records of the condition have been built.
FlowCellsBuilt == pc \in {"flow.save_cells", "flow.locations", "flow.save_locations", "flow.setup"}

\* The rows the reference location holds for a condition, none without a reference.
ReferenceRowsOf(fov_key) ==
    IF working.reference_exists
    THEN SelectSeq(working.reference, LAMBDA r : r[<<"KEY">>] = fov_key)
    ELSE <<>>

\* C18 as stated: when no reference data exists (the reference key is missing)
\* the conversion gets an empty reference and completes, no error is raised;
\* when the reference has rows for the condition the conversion gets those rows.
C18_AbsentReferenceCompletes ==
    /\ ~working.reference_exists => raised = None
    /\ FlowCellsBuilt =>
        /\ Len(cells.reference) = Len(ReferenceRowsOf(fov.key))
        /\ \A n \in 1..Len(cells.reference) :
            cells.reference[n][<<"ID">>] = ReferenceRowsOf(fov.key)[n][<<"ID">>]

\* Both record collections of the condition being converted are built.
BothBuilt == Built \/ pc \in {"flow.save_locations", "flow.setup"}

\* C19 as stated: for one condition no output artifact is written until both
\* the complete cell-record collection and the complete location-record
\* collection have been built.
C19_NoWriteBeforeBothBuilt == [][saved' # saved => BothBuilt]_vars

-----------------------------------------------------------------------------
(* flows/initialize_arcade_simulations.py: run_flow_sample_images and      *)
(* run_flow_process_samples, each run on its own; docker_log records the   *)
(* calls to container_collection.docker in the order they are made.        *)

MaxItems == 2

\* The items of parameters.sample_images and parameters.process_samples: a
\* name and the suffix of the key template "%s<suffix>".
ItemPool ==
    <<[name |-> "A", key |-> "_A"], [name |-> "B", key |-> "_B"], [name |-> "C", key |-> "_C"]>>

ItemLists == {SubSeq(ItemPool, 1, n) : n \in 0..MaxItems}

\* The conditions of a series for the two subflows: a key and, for some,
\* include_ids or exclude_ids.
DockerFovs ==
    {[key |-> "K1"], [key |-> "K2", include_ids |-> <<1, 2>>], [key |-> "K3", exclude_ids |-> <<3>>]}

DockerFovSequences == UNION {[1..n -> DockerFovs] : n \in 0..MaxConditions}

DockerParameters ==
    {[image |-> "image", resolution |-> RatInt(1), sample_images |-> sample_items,
      process_samples |-> process_items] :
        sample_items \in ItemLists, process_items \in ItemLists}

DockerContexts ==
    {[working_location |-> w, access_key_id |-> a, secret_access_key |-> k] :
        w \in {"s3://bucket/working", "/local/working"}, a \in {None, "ID"}, k \in {None, "SECRET"}}

\* str.startswith("s3://")
startswith_s3(text) == Len(text) >= 5 /\ SubSeq(text, 1, 5) = "s3://"

\* Docker arguments that hold a volume for every working location.
get_docker_arguments_always_volume(ctx) == [volume |-> "volume"]

\* get_docker_arguments: the environment for an s3 working location, the
\* volume returned by create_docker_volume otherwise.
get_docker_arguments(ctx) ==
    IF startswith_s3(ctx.working_location)
    THEN [environment |->
            (IF ctx.access_key_id # None THEN <<"AWS_ACCESS_KEY_ID=" \o ctx.access_key_id>> ELSE <<>>)
            \o (IF ctx.secret_access_key # None
                THEN <<"AWS_SECRET_ACCESS_KEY=" \o ctx.secret_access_key>> ELSE <<>>)]
    ELSE [volume |-> "volume"]

\* The log after get_docker_arguments: create_docker_volume is called exactly
\* when the arguments hold a volume.
log_docker_arguments(log, ctx, arguments) ==
    IF "volume" \in DOMAIN arguments
    THEN Append(log, [op |-> "create_docker_volume", path |-> ctx.working_location,
                      volume |-> arguments.volume])
    ELSE log

\* The working location of the subflow run in the container.
container_working_location(ctx) ==
    IF startswith_s3(ctx.working_location)
    THEN ctx.working_location
    ELSE "/mnt"

\* run_docker_command(parameters.image, command, **docker_args)
log_docker_command(log, image, command, arguments) ==
    Append(log, [op |-> "run_docker_command", image |-> image, command |-> command,
                 arguments |-> arguments])

\* if "volume" in docker_args: remove_docker_volume(docker_args["volume"])
log_remove_volume(log, arguments) ==
    IF "volume" \in DOMAIN arguments
    THEN Append(log, [op |-> "remove_docker_volume", volume |-> arguments.volume])
    ELSE log

\* SAMPLE_IMAGE_COMMAND + make_dotlist_from_config(config)
sample_image_command(ctx, params, condition, item) ==
    [flow |-> "sample-image",
     working_location |-> container_working_location(ctx),
     key |-> condition.key \o item.key,
     resolution |-> params.resolution]

\* PROCESS_SAMPLE_COMMAND + make_dotlist_from_config(config)
process_sample_command(ctx, params, condition, item) ==
    [flow |-> "process-sample",
     working_location |-> container_working_location(ctx),
     key |-> condition.key \o item.key,
     resolution_key |-> make_resolution_key(params.resolution)]
    @@ (IF "include_ids" \in DOMAIN condition
        THEN [include_ids |-> condition.include_ids] ELSE <<>>)
    @@ (IF "exclude_ids" \in DOMAIN condition
        THEN [exclude_ids |-> condition.exclude_ids] ELSE <<>>)

InitDocker ==
    /\ pc \in {"run_flow_sample_images", "run_flow_process_samples"}
    /\ context \in DockerContexts
    /\ parameters \in DockerParameters
    /\ conditions \in DockerFovSequences
    /\ fov = None
    /\ docker_args = None
    /\ docker_log = <<>>
    /\ item_index = None
    /\ raised = None
    /\ merged = None
    /\ config = None
    /\ samples = None
    /\ reference = None
    /\ region = None
    /\ criticals = None
    /\ cell = None
    /\ ClassifierIdle
    /\ TransformIdle
    /\ LocationIdle
    /\ RunIdle
    /\ LocalIdle

notOfDocker ==
    <<classifierVars, cellVars, transformVars, locationVars, runVars, localVars, raised, merged,
      context, parameters>>

\* Lines 155-162, 187-195: docker_args = get_docker_arguments(context) and the
\* configurations of the subflow.
DockerArguments ==
    /\ pc \in {"run_flow_sample_images", "run_flow_process_samples"}
    /\ docker_args' = get_docker_arguments(context)
    /\ docker_log' = log_docker_arguments(docker_log, context, docker_args')
    /\ item_index' = 0
    /\ pc' = IF pc = "run_flow_sample_images" THEN "sample_images.for" ELSE "process_samples.for"
    /\ UNCHANGED <<conditions, fov, notOfDocker>>

\* One pass of the inner loop of for fov in series.conditions, commands being
\* the docker commands of the items for the condition: the docker command of
\* the item, then the next item or the next condition; a condition is passed
\* over when there are no items.
DockerLoop(commands) ==
    /\ fov' = Head(conditions)
    /\ IF commands = <<>>
       THEN /\ conditions' = Tail(conditions)
            /\ UNCHANGED <<docker_log, item_index>>
       ELSE /\ docker_log' = log_docker_command(docker_log, parameters.image,
                                                commands[item_index + 1], docker_args)
            /\ IF item_index + 1 = Len(commands)
               THEN conditions' = Tail(conditions) /\ item_index' = 0
               ELSE item_index' = item_index + 1 /\ UNCHANGED conditions
    /\ UNCHANGED <<pc, docker_args, notOfDocker>>

\* Lines 164-177
SampleImagesCommand ==
    /\ pc = "sample_images.for"
    /\ conditions # <<>>
    /\ DockerLoop([n \in 1..Len(parameters.sample_images) |->
                      sample_image_command(context, parameters, Head(conditions),
                                           parameters.sample_images[n])])

\* Lines 197-217
ProcessSamplesCommand ==
    /\ pc = "process_samples.for"
    /\ conditions # <<>>
    /\ DockerLoop([n \in 1..Len(parameters.process_samples) |->
                      process_sample_command(context, parameters, Head(conditions),
                                             parameters.process_samples[n])])

\* Lines 179-180, 219-220: after the loops the volume, if any, is removed and
\* the subflow returns.
DockerRemoveVolume ==
    /\ pc \in {"sample_images.for", "process_samples.for"}
    /\ conditions = <<>>
    /\ docker_log' = log_remove_volume(docker_log, docker_args)
    /\ pc' = IF pc = "sample_images.for"
             THEN "run_flow_sample_images.return" ELSE "run_flow_process_samples.return"
    /\ UNCHANGED <<conditions, fov, docker_args, item_index, notOfDocker>>

NextDocker ==
    \/ DockerArguments
    \/ SampleImagesCommand
    \/ ProcessSamplesCommand
    \/ DockerRemoveVolume

SpecDocker == InitDocker /\ [][NextDocker]_vars

-----------------------------------------------------------------------------
(* Properties of the two Docker subflows, checked under SpecDocker.        *)

DockerReturned == pc \in {"run_flow_sample_images.return", "run_flow_process_samples.return"}

\* The positions in the log of the calls of one operation.
CallsOf(op) == {p \in 1..Len(docker_log) : docker_log[p].op = op}

-----------------------------------------------------------------------------
(* flows/initialize_arcade_simulations_local.py: run_flow and the task runs *)
(* of the calls it submits.  A submitted call is a Pending task run; the   *)
(* task runner starts it, concurrently with the flow and with the other    *)
(* task runs, once every future of its wait_for is Completed.              *)

MaxFovs == 2

FovKeys == <<"F1", "F2", "F3">>

\* for channel in [0, 1]
Channels == <<0, 1>>

\* selected_fovs = select_fov_images(metadata, cells_per_fov, num_fovs)
SelectedFovs ==
    {[n \in 1..num |-> [key |-> FovKeys[n], item |-> FovKeys[n] \o ".tiff", cell_ids |-> <<n>>]] :
        num \in 0..MaxFovs}

\* make_key(series.name, "images", f"{fov['key']}.ome.tiff")
make_fov_image_key(fov_key) == "NAME/images/" \o fov_key \o ".ome.tiff"

\* make_key(series.name, "samples", "samples.PROCESSED",
\*          f"{fov['key']}_channel_{channel}.PROCESSED.csv")
make_old_key(fov_key, ch) ==
    "NAME/samples/samples.PROCESSED/" \o fov_key \o "_channel_" \o (IF ch = 0 THEN "0" ELSE "1")
        \o ".PROCESSED.csv"

\* make_key(series.name, "samples", "samples.PROCESSED",
\*          f"{fov['key']}.PROCESSED{'.NUCLEUS' if channel == 0 else ''}.csv")
make_new_key(fov_key, ch) ==
    "NAME/samples/samples.PROCESSED/" \o fov_key \o ".PROCESSED"
        \o (IF ch = 0 THEN ".NUCLEUS" ELSE "") \o ".csv"

\* The task runs, named by task, FOV key and channel (-1 and "" where the
\* call has none).
save_quilt_item_run(fov_key) == <<"save_quilt_item", fov_key, -1>>
sample_image_run(fov_key) == <<"run_docker_command:sample-image", fov_key, -1>>
process_samples_run(fov_key, ch) == <<"run_docker_command:process-sample", fov_key, ch>>
rename_run(fov_key, ch) == <<"change_key", fov_key, ch>>
remove_docker_volume_run == <<"remove_docker_volume", "", -1>>

\* A submission of process-sample that waits for nothing.
process_samples_no_wait(fov_key) == {}

\* wait_for=[sample_image]
process_samples_wait_for(fov_key) == {sample_image_run(fov_key)}

\* wait_for=[process_samples]
rename_wait_for(fov_key, ch) == {process_samples_run(fov_key, ch)}

\* task.submit(..., wait_for=upstream): a new Pending task run.
submit(task_runs, run, upstream, arguments) ==
    (run :> [state |-> "Pending", wait_for |-> upstream, arguments |-> arguments]) @@ task_runs

WorkingLocationNames == {"s3://bucket/working", "/local/working"}

\* The image keys the working location holds when the flow starts: the image
\* of every FOV, or of every FOV but one.
ImageKeys == {make_fov_image_key(FovKeys[n]) : n \in 1..MaxFovs}

InitialLocationKeys == {ImageKeys} \cup {ImageKeys \ {image} : image \in ImageKeys}

InitLocal ==
    /\ pc = "local.run_flow"
    /\ context \in {[working_location |-> w] : w \in WorkingLocationNames}
    /\ location_keys \in InitialLocationKeys
    /\ selected_fovs = None
    /\ docker_volume = None
    /\ tasks = <<>>
    /\ all_fovs = <<>>
    /\ fov_index = None
    /\ channel = None
    /\ docker_args = None
    /\ docker_log = None
    /\ item_index = None
    /\ raised = None
    /\ merged = None
    /\ config = None
    /\ samples = None
    /\ reference = None
    /\ region = None
    /\ criticals = None
    /\ cell = None
    /\ ClassifierIdle
    /\ TransformIdle
    /\ LocationIdle
    /\ RunIdle
    /\ FlowIdle

notOfLocal ==
    <<classifierVars, cellVars, transformVars, locationVars, runVars, flowVars, raised, merged,
      context, docker_args, docker_log, item_index>>

\* Lines 44-66: an s3 working location is refused; otherwise the metadata is
\* loaded, the FOVs are selected and the Docker volume is created.
LocalRunFlow ==
    /\ pc = "local.run_flow"
    /\ IF startswith_s3(context.working_location)
       THEN /\ pc' = "local.return"
            /\ UNCHANGED <<selected_fovs, docker_volume, fov_index>>
       ELSE /\ selected_fovs' \in SelectedFovs
            /\ docker_volume' = "volume"
            /\ fov_index' = 0
            /\ pc' = "local.for"
    /\ UNCHANGED <<location_keys, tasks, all_fovs, channel, notOfLocal>>

\* The FOV of the running iteration of for fov in selected_fovs.
LocalFov == selected_fovs[fov_index + 1]

\* Lines 68-73: check_key on the image of the FOV; save_quilt_item.submit when
\* the image is not in the working location.
LocalCheckImage ==
    /\ pc = "local.for"
    /\ fov_index < Len(selected_fovs)
    /\ tasks' = IF make_fov_image_key(LocalFov.key) \in location_keys
                THEN tasks
                ELSE submit(tasks, save_quilt_item_run(LocalFov.key), {},
                            [key |-> make_fov_image_key(LocalFov.key), item |-> LocalFov.item])
    /\ pc' = "local.sample_image"
    /\ UNCHANGED <<selected_fovs, location_keys, docker_volume, all_fovs, fov_index, channel,
                   notOfLocal>>

\* Lines 75-89: sample_image = run_docker_command.submit(image, command, volume=volume)
LocalSubmitSampleImage ==
    /\ pc = "local.sample_image"
    /\ tasks' = submit(tasks, sample_image_run(LocalFov.key), {},
                       [key |-> LocalFov.key, channels |-> Channels, volume |-> docker_volume])
    /\ channel' = Channels[1]
    /\ pc' = "local.process_samples"
    /\ UNCHANGED <<selected_fovs, location_keys, docker_volume, all_fovs, fov_index, notOfLocal>>

\* Lines 91-107: process_samples = run_docker_command.submit(image, command,
\* volume=volume, wait_for=[sample_image])
LocalSubmitProcessSamples ==
    /\ pc = "local.process_samples"
    /\ tasks' = submit(tasks, process_samples_run(LocalFov.key, channel),
                       process_samples_wait_for(LocalFov.key),
                       [key |-> LocalFov.key, channel |-> channel,
                        include_ids |-> LocalFov.cell_ids, volume |-> docker_volume])
    /\ pc' = "local.rename"
    /\ UNCHANGED <<selected_fovs, location_keys, docker_volume, all_fovs, fov_index, channel,
                   notOfLocal>>

\* Lines 109-125: rename = change_key.submit(working_location, old_key, new_key,
\* wait_for=[process_samples]); all_fovs.append(rename); then the next channel,
\* or the next FOV.
LocalSubmitRename ==
    /\ pc = "local.rename"
    /\ tasks' = submit(tasks, rename_run(LocalFov.key, channel),
                       rename_wait_for(LocalFov.key, channel),
                       [old_key |-> make_old_key(LocalFov.key, channel),
                        new_key |-> make_new_key(LocalFov.key, channel)])
    /\ all_fovs' = Append(all_fovs, rename_run(LocalFov.key, channel))
    /\ IF channel = Channels[Len(Channels)]
       THEN /\ fov_index' = fov_index + 1
            /\ channel' = None
            /\ pc' = "local.for"
       ELSE /\ channel' = Channels[2]
            /\ pc' = "local.process_samples"
            /\ UNCHANGED fov_index
    /\ UNCHANGED <<selected_fovs, location_keys, docker_volume, notOfLocal>>

\* Lines 127-128: if volume is not None:
\*     remove_docker_volume.submit(volume, wait_for=all_fovs)
LocalSubmitRemove ==
    /\ pc = "local.for"
    /\ fov_index = Len(selected_fovs)
    /\ tasks' = IF docker_volume # None
                THEN submit(tasks, remove_docker_volume_run,
                            {all_fovs[n] : n \in 1..Len(all_fovs)}, [volume |-> docker_volume])
                ELSE tasks
    /\ pc' = "local.return"
    /\ UNCHANGED <<selected_fovs, location_keys, docker_volume, all_fovs, fov_index, channel,
                   notOfLocal>>

\* The task runner starts a Pending task run whose upstream futures are all
\* Completed.
TaskStart(run) ==
    /\ run \in DOMAIN tasks
    /\ tasks[run].state = "Pending"
    /\ \A upstream \in tasks[run].wait_for : tasks[upstream].state = "Completed"
    /\ tasks' = [tasks EXCEPT ![run].state = "Running"]
    /\ UNCHANGED <<pc, selected_fovs, location_keys, docker_volume, all_fovs, fov_index, channel,
                   notOfLocal>>

\* The keys of the working location after a task run: save_quilt_item saves
\* the image, process-sample the processed samples of the channel, change_key
\* moves old_key to new_key.
keys_after(run, arguments, present) ==
    IF run[1] = "save_quilt_item" THEN present \cup {arguments.key}
    ELSE IF run[1] = "run_docker_command:process-sample"
    THEN present \cup {make_old_key(arguments.key, arguments.channel)}
    ELSE IF run[1] = "change_key"
    THEN (present \ {arguments.old_key}) \cup {arguments.new_key}
    ELSE present

\* A Running task run completes.
TaskFinish(run) ==
    /\ run \in DOMAIN tasks
    /\ tasks[run].state = "Running"
    /\ tasks' = [tasks EXCEPT ![run].state = "Completed"]
    /\ location_keys' = keys_after(run, tasks[run].arguments, location_keys)
    /\ UNCHANGED <<pc, selected_fovs, docker_volume, all_fovs, fov_index, channel, notOfLocal>>

NextLocal ==
    \/ LocalRunFlow
    \/ LocalCheckImage
    \/ LocalSubmitSampleImage
    \/ LocalSubmitProcessSamples
    \/ LocalSubmitRename
    \/ LocalSubmitRemove
    \/ \E run \in DOMAIN tasks : TaskStart(run)
    \/ \E run \in DOMAIN tasks : TaskFinish(run)

SpecLocal == InitLocal /\ [][NextLocal]_vars

-----------------------------------------------------------------------------
(* Properties of the local flow, checked under SpecLocal.                  *)

\* The state of a task run, None before it is submitted.
StateOf(task_runs, run) == IF run \in DOMAIN task_runs THEN task_runs[run].state ELSE None

\* The step starts the task run; the task run has finished.
Starts(run) == StateOf(tasks, run) # "Running" /\ StateOf(tasks', run) = "Running"
Finished(run) == StateOf(tasks, run) = "Completed"

\* The keys of the selected FOVs, none before the selection (the volume is
\* created right after it).
SelectedKeys ==
    IF docker_volume = None THEN {} ELSE {selected_fovs[n].key : n \in 1..Len(selected_fovs)}

\* The last characters of a text.
Suffix(text, n) == SubSeq(text, Len(text) - n + 1, Len(text))

\* The renames submitted for an FOV go to the keys of the two channels.
RenamedApart(fov_key) ==
    /\ \A ch \in {0, 1} :
        rename_run(fov_key, ch) \in DOMAIN tasks =>
            LET new_key == tasks[rename_run(fov_key, ch)].arguments.new_key
            IN  IF ch = 0
                THEN Suffix(new_key, 22) = ".PROCESSED.NUCLEUS.csv"
                ELSE /\ Suffix(new_key, 14) = ".PROCESSED.csv"
                     /\ Suffix(new_key, 22) # ".PROCESSED.NUCLEUS.csv"
    /\ (rename_run(fov_key, 0) \in DOMAIN tasks /\ rename_run(fov_key, 1) \in DOMAIN tasks) =>
        tasks[rename_run(fov_key, 0)].arguments.new_key
            # tasks[rename_run(fov_key, 1)].arguments.new_key

\* C27: in the local flow, for every selected FOV and each channel, the
\* process-sample command starts only after the FOV's sample-image command
\* has finished, the rename starts only after the channel's process-sample
\* command has finished, and the Docker volume is removed only after the
\* renames of every FOV and channel have finished; the two channels of an FOV
\* are renamed to distinct keys, channel 0 to .PROCESSED.NUCLEUS.csv and
\* channel 1 to .PROCESSED.csv.
C27_LocalOrdering ==
    /\ [](\A fov_key \in SelectedKeys : RenamedApart(fov_key))
    /\ [][/\ \A fov_key \in SelectedKeys : \A ch \in {0, 1} :
              /\ Starts(process_samples_run(fov_key, ch)) => Finished(sample_image_run(fov_key))
              /\ Starts(rename_run(fov_key, ch)) => Finished(process_samples_run(fov_key, ch))
          /\ Starts(remove_docker_volume_run) =>
              \A fov_key \in SelectedKeys : \A ch \in {0, 1} : Finished(rename_run(fov_key, ch))
         ]_vars

\* C27 witness: two FOVs were selected, the renames of both channels of both
\* have finished and the removal of the volume is running.
C27_Witness ==
    /\ pc = "local.return"
    /\ Cardinality(SelectedKeys) = 2
    /\ \A fov_key \in SelectedKeys : \A ch \in {0, 1} : Finished(rename_run(fov_key, ch))
    /\ StateOf(tasks, remove_docker_volume_run) = "Running"

\* C28 as stated: the sample-image command of an FOV starts only after the
\* FOV's image is present in the working location: the image key already
\* existed, or the submitted save_quilt_item of the image has completed.
C28_SampleAfterImage ==
    [][\A fov_key \in SelectedKeys :
          Starts(sample_image_run(fov_key)) =>
              /\ make_fov_image_key(fov_key) \in location_keys
              /\ \/ save_quilt_item_run(fov_key) \notin DOMAIN tasks
                 \/ Finished(save_quilt_item_run(fov_key))
      ]_vars

====
